---- MODULE Spec2Model ----
(***************************************************************************)
(* A model of receiptline: transform() (src/src/index.ts), parseLine /     *)
(* wrapText / createLine (parse.ts, kept as src/unnamed/part_002) and the  *)
(* target lock of BaseTarget (base.ts, kept inside src/src/targets/html.ts)*)
(*                                                                         *)
(* A document line is given to the model already split at its unescaped    *)
(* pipes: a sequence of raw columns, each with the whitespace flags the    *)
(* split leaves next to it and its trimmed content classified by the       *)
(* regular expressions of parseLine.  A text is a sequence of glyphs, a    *)
(* glyph is a one-character string.  A property value is the sequence of   *)
(* its tokens (the value split at whitespace and commas).                  *)
(***************************************************************************)
EXTENDS Integers, Sequences, FiniteSets, TLC

\* ------------------------------------------------------------------ bounds
\* cpl is drawn from 1..MaxCpl
MaxCpl == 5
\* a document has at most MaxLines lines
MaxLines == 4
\* the number of transform() calls that share one target
NumCalls == 3
\* a line laid out on its own has at most MaxColumns columns, on a
\* printer of at most MaxArea characters per line
MaxColumns == 3
MaxArea == 8

\* the lines of a document given by its characters
MaxCharLines == 3
\* a short barcode payload has at most MaxPayload characters
MaxPayload == 3
\* the lines of a document whose sink calls are followed one by one
MaxSinkLines == 2
\* a text given to wrapText on its own has at most MaxDecorations
\* decorations between its literal runs, in a column of at most MaxWidth
\* characters
MaxDecorations == 2
MaxWidth == 4

\* ------------------------------------------------------------- sequences
RECURSIVE SumSeq(_)
SumSeq(s) ==
    IF s = <<>> THEN 0 ELSE s[1] + SumSeq(Tail(s))

MaxOf(a, b) ==
    IF a > b THEN a ELSE b

MinOf(a, b) ==
    IF a < b THEN a ELSE b

Abs(a) ==
    IF a < 0 THEN -a ELSE a

\* the sequence with the elements of the function f on 1..n, computed once
Array(f) ==
    SubSeq(f, 1, Len(f))

\* the sequences of a sequence, one after the other
RECURSIVE Flatten(_)
Flatten(s) ==
    IF s = <<>> THEN <<>> ELSE Head(s) \o Flatten(Tail(s))

\* Array.prototype.filter: the places of s, in order, that are in keep
Indices(s, keep) ==
    LET RECURSIVE Go(_)
        Go(i) == IF i > Len(s) THEN <<>>
                 ELSE IF i \in keep THEN <<i>> \o Go(i + 1) ELSE Go(i + 1)
    IN Go(1)

\* Array.prototype.find on a sequence of strings: the first element in Good, or dflt
FindOr(s, Good, dflt) ==
    LET hits == Indices(s, {i \in 1..Len(s) : s[i] \in Good})
    IN IF hits = <<>> THEN dflt ELSE s[hits[1]]

\* Number(c) for the tokens /^\d+$/ the model's documents use
NumOf ==
    [c \in {"0", "1", "2", "3", "4", "5", "9", "24", "72"} |->
        CASE c = "0" -> 0 [] c = "1" -> 1 [] c = "2" -> 2 [] c = "3" -> 3
          [] c = "4" -> 4 [] c = "5" -> 5 [] c = "9" -> 9 [] c = "24" -> 24
          [] c = "72" -> 72]

IsDigits(c) ==
    c \in DOMAIN NumOf

\* String.prototype.toLowerCase on the property values the model's documents use
ToLowerCase(c) ==
    CASE c = "LINE" -> "line"
      [] c = "NoWrap" -> "nowrap"
      [] OTHER -> c

\* ---------------------------------------------------------------- state
\* transform(): the state variables of one document
InitState ==
    [wrap |-> TRUE,
     border |-> 1,
     width |-> <<>>,
     align |-> 1,
     option |-> [type |-> "code128", width |-> 2, height |-> 72, hri |-> FALSE,
                 cell |-> 3, level |-> "l", quietZone |-> FALSE],
     line |-> "waiting",
     rules |-> [left |-> 0, width |-> 0, right |-> 0, widths |-> <<>>]]

\* ------------------------------------------------------------- parseLine
\* the keys a parsed column may carry ('text' in el, 'hr' in column, ...)
NoCode ==
    [data |-> <<>>, type |-> "", width |-> 0, height |-> 0, hri |-> FALSE,
     cell |-> 0, level |-> "", quietZone |-> FALSE]

\* parseLine: let result = { align: 1, wrap, border, width: 0, alignment }
NewColumn(state) ==
    [align |-> 1, wrap |-> state.wrap, border |-> state.border, width |-> 0,
     alignment |-> state.align, has |-> {}, text |-> <<>>, property |-> <<>>,
     code |-> NoCode, image |-> <<>>, command |-> <<>>, comment |-> <<>>,
     hr |-> "", vr |-> "", error |-> FALSE]

\* the abbreviations of the property keys
ExpandKey(key) ==
    CASE key = "a" -> "align" [] key = "b" -> "border" [] key = "c" -> "code"
      [] key = "i" -> "image" [] key = "o" -> "option" [] key = "t" -> "text"
      [] key = "w" -> "width" [] key = "x" -> "command" [] key = "_" -> "comment"
      [] OTHER -> key

\* the reduce over the members of a property block: a member is blank, a
\* key:value pair (m = "kv") or neither (m = "bad"); the result is the
\* key -> value map and whether some member was invalid
RECURSIVE ParseMembers(_, _, _)
ParseMembers(members, obj, err) ==
    IF members = <<>> THEN [property |-> obj, error |-> err]
    ELSE LET member == Head(members)
         IN CASE member.m = "blank" -> ParseMembers(Tail(members), obj, err)
              [] member.m = "kv" ->
                   LET k == ExpandKey(member.key)
                   IN ParseMembers(Tail(members),
                        [x \in DOMAIN obj \cup {k} |->
                            IF x = k THEN member.val ELSE obj[x]], err)
              [] OTHER -> ParseMembers(Tail(members), obj, TRUE)

\* 'key' in result.property && result.property.key
HasProp(p, key) ==
    key \in DOMAIN p /\ p[key] # <<>>

\* the whole value of a property whose value is matched as one string
Whole(val) ==
    IF Len(val) = 1 THEN ToLowerCase(val[1]) ELSE "?"

\* parseLine, 'border' property: line | space | none | 0..2, anything else 1
BorderOf(c) ==
    CASE c = "line" -> -1
      [] c = "space" -> 1
      [] c = "none" -> 0
      [] IsDigits(c) /\ NumOf[c] <= 2 -> NumOf[c]
      [] OTHER -> 1

\* parseLine, 'width' property: auto clears the list, '*' is -1, digits a
\* number, anything else 0
WidthOf(val) ==
    IF \E i \in 1..Len(val) : ToLowerCase(val[i]) = "auto" THEN <<>>
    ELSE Array([i \in 1..Len(val) |->
            LET c == ToLowerCase(val[i])
            IN IF c = "*" THEN -1 ELSE IF IsDigits(c) THEN NumOf[c] ELSE 0])

\* parseLine, 'align' property
AlignOf(c) ==
    CASE c = "left" -> 0 [] c = "center" -> 1 [] c = "right" -> 2 [] OTHER -> 1

\* parseLine, 'option' property
OptionOf(val) ==
    LET option == [i \in 1..Len(val) |-> ToLowerCase(val[i])]
        Nums(lo, hi) == {c \in DOMAIN NumOf : NumOf[c] >= lo /\ NumOf[c] <= hi}
    IN [type |-> FindOr(option, {"upc", "ean", "jan", "code39", "itf", "codabar",
                                 "nw7", "code93", "code128", "qrcode"}, "code128"),
        width |-> NumOf[FindOr(option, Nums(2, 4), "2")],
        height |-> NumOf[FindOr(option, Nums(24, 240), "72")],
        hri |-> \E i \in 1..Len(option) : option[i] = "hri",
        cell |-> NumOf[FindOr(option, Nums(3, 8), "3")],
        level |-> FindOr(option, {"l", "m", "q", "h"}, "l"),
        quietZone |-> FALSE]

\* parseLine, 'image' property: the text from the first '=' on and every
\* character outside the base64 alphabet are removed; an image value is
\* given one character per token
Base64Chars ==
    {"A", "B", "0", "+", "/"}

RECURSIVE StripImage(_)
StripImage(val) ==
    IF val = <<>> \/ Head(val) = "=" THEN <<>>
    ELSE IF Head(val) \in Base64Chars THEN <<Head(val)>> \o StripImage(Tail(val))
    ELSE StripImage(Tail(val))

\* parseLine, 'image' property: re-padded to a multiple of 4
ImageOf(val) ==
    LET c == StripImage(val)
    IN CASE Len(c) % 4 = 1 -> SubSeq(c, 1, Len(c) - 1)
         [] Len(c) % 4 = 2 -> c \o <<"=", "=">>
         [] Len(c) % 4 = 3 -> c \o <<"=">>
         [] OTHER -> c

\* parseLine: the single-column properties, applied to the state (text,
\* border, width, align, option); the result is the new state and the
\* rule marker ('+', '-' or none) of the column
ApplyProperty(p, state) ==
    LET border == IF HasProp(p, "border") THEN BorderOf(Whole(p["border"]))
                  ELSE state.border
    IN [state |->
          [state EXCEPT
             !.wrap = IF HasProp(p, "text") THEN Whole(p["text"]) # "nowrap" ELSE @,
             !.border = border,
             !.width = IF HasProp(p, "width") THEN WidthOf(p["width"]) ELSE @,
             !.align = IF HasProp(p, "align") THEN AlignOf(Whole(p["align"])) ELSE @,
             !.option = IF HasProp(p, "option") THEN OptionOf(p["option"]) ELSE @],
        vr |-> IF state.border >= 0 /\ border < 0 THEN "+"
               ELSE IF state.border < 0 /\ border >= 0 THEN "-"
               ELSE ""]

\* parseLine: the properties of a single column that are not saved in the
\* state: code (with the options of the state), image, command, comment
SingleColumn(result, state) ==
    LET p == result.property
        keys == {k \in {"code", "image", "command", "comment"} : HasProp(p, k)}
    IN [result EXCEPT
          !.has = @ \cup keys,
          !.code = IF "code" \in keys
                   THEN [data |-> p["code"],
                         type |-> state.option.type,
                         width |-> state.option.width,
                         height |-> state.option.height,
                         hri |-> state.option.hri,
                         cell |-> state.option.cell,
                         level |-> state.option.level,
                         quietZone |-> state.option.quietZone]
                   ELSE @,
          !.image = IF "image" \in keys THEN ImageOf(p["image"]) ELSE @,
          !.command = IF "command" \in keys THEN p["command"] ELSE @,
          !.comment = IF "comment" \in keys THEN p["comment"] ELSE @]

\* parseLine: the width of a column under the width list of the state
ColumnWidth(result, index, state) ==
    IF state.width = <<>> THEN -1
    ELSE IF "text" \in result.has
         THEN IF index <= Len(state.width) THEN state.width[index] ELSE 0
    ELSE IF \E i \in 1..Len(state.width) : state.width[i] < 0 THEN -1
    ELSE LET w == Indices(state.width, {i \in 1..Len(state.width) : state.width[i] > 0})
         IN IF w = <<>> THEN 0
            ELSE SumSeq([i \in 1..Len(w) |-> state.width[w[i]]])
                 + (IF result.border < 0 THEN Len(w) + 1
                    ELSE (Len(w) - 1) * result.border)

\* parseLine: the content of a column by the regular expression it
\* matches: a property block, a stray brace, a rule or cut marker, text
Classify(column, length, block, applied, result) ==
    CASE column.kind = "block" ->
           LET b0 == [result EXCEPT
                        !.has = {"property"} \cup
                                (IF block.error THEN {"error"} ELSE {}) \cup
                                (IF applied.vr # "" THEN {"vr"} ELSE {}),
                        !.property = block.property,
                        !.error = block.error,
                        !.vr = applied.vr]
           IN IF length = 1 THEN SingleColumn(b0, applied.state) ELSE b0
      [] column.kind = "brace" ->
           [result EXCEPT !.has = {"error"}, !.error = TRUE]
      [] column.kind \in {"dash", "equal"} /\ length = 1 ->
           [result EXCEPT !.has = {"hr"},
                          !.hr = IF column.kind = "dash" THEN "-" ELSE "="]
      [] OTHER ->
           [result EXCEPT !.has = {"text"}, !.text = column.text]

\* parseLine: the current wrapping, border, width and line alignment
\* are set on the column
SetCurrent(result, index, state) ==
    LET r == [result EXCEPT !.wrap = state.wrap, !.border = state.border,
                            !.alignment = state.align]
    IN [column |-> [r EXCEPT !.width = ColumnWidth(r, index, state)],
        state |-> state]

\* parseLine: a column whose property block is parsed (block) and, when
\* the line has one column, applied to the state (applied)
ParseApplied(column, index, length, block, applied) ==
    SetCurrent(Classify(column, length, block, applied,
                        [NewColumn(applied.state) EXCEPT
                           !.align = 1 + (IF column.lead THEN 1 ELSE 0)
                                       - (IF column.trail THEN 1 ELSE 0)]),
               index, applied.state)

\* a variant that applies a property block in a line of any length
ParseBlockAlways(column, index, length, block, state) ==
    ParseApplied(column, index, length, block,
                 IF column.kind = "block"
                 THEN ApplyProperty(block.property, state)
                 ELSE [state |-> state, vr |-> ""])

ParseBlock(column, index, length, block, state) ==
    ParseApplied(column, index, length, block,
                 IF column.kind = "block" /\ length = 1
                 THEN ApplyProperty(block.property, state)
                 ELSE [state |-> state, vr |-> ""])

\* parseLine: one column of the split line.  column is the raw column
\* (lead / trail: whitespace at its ends; kind: which regular expression
\* its trimmed content matches), index its 1-based place, length the number
\* of columns of the line.  The result is the parsed column and the state.
ParseColumn(column, index, length, state) ==
    ParseBlock(column, index, length,
               ParseMembers(column.members, <<>>, FALSE), state)

\* parseLine: an empty text column that fills a line up to the width list
FillColumn(index, state) ==
    [NewColumn(state) EXCEPT !.has = {"text"}, !.text = << <<>> >>,
                             !.width = state.width[index]]

\* parseLine: a line of text columns shorter than the width list is
\* filled with empty columns
FillLine(line, state) ==
    IF (\A i \in 1..Len(line) : "text" \in line[i].has)
       /\ Len(state.width) > Len(line)
    THEN Array([i \in 1..Len(state.width) |->
                  IF i <= Len(line) THEN line[i] ELSE FillColumn(i, state)])
    ELSE line

\* parseLine: the columns after the first.  Only a line of one column
\* changes the state, so they are parsed under the state the first leaves.
ParseRest(columns, first) ==
    [line |-> FillLine(Array([i \in 1..Len(columns) |->
                                IF i = 1 THEN first.column
                                ELSE ParseColumn(columns[i], i, Len(columns),
                                                 first.state).column]),
                       first.state),
     state |-> first.state]

\* parseLine: the columns of a line and the state after it
ParseLine(columns, state) ==
    ParseRest(columns, ParseColumn(columns[1], 1, Len(columns), state))

\* -------------------------------------------------------------- wrapText
\* BaseTarget.measureText of one glyph: in the double-byte encodings a
\* character from 0x80 on is two cells wide ("W" stands for such a
\* character), in the other encodings every character is one cell
MeasureText(glyph, encoding) ==
    IF encoding \in {"cp932", "shiftjis", "cp936", "gb18030", "cp949", "ksc5601",
                     "cp950", "big5"}
    THEN (IF glyph = "W" THEN 2 ELSE 1)
    ELSE 1

\* a horizontal scale that grows with every selector
ScalePlain(wh) ==
    wh + 1

\* wrapText: the horizontal scale of the selector wh (wh < 2 ? wh + 1 : wh - 1)
ScaleOf(wh) ==
    IF wh < 2 THEN wh + 1 ELSE wh - 1

\* wrapText: the row height of the selector wh (wh < 3 ? wh : wh - 1)
HeightOf(wh) ==
    IF wh < 3 THEN wh ELSE wh - 1

\* text.length of a run of carets
CaretLen(text) ==
    CASE text = "^" -> 1 [] text = "^^" -> 2 [] text = "^^^" -> 3
      [] text = "^^^^" -> 4 [] text = "^^^^^" -> 5 [] text = "^^^^^^" -> 6
      [] text = "^^^^^^^" -> 7 [] OTHER -> 8

\* wrapText: the inner loop, which takes glyphs while they fit the space;
\* j glyphs of t are taken, w is the width of the glyph that did not fit
\* (0 when all did)
RECURSIVE Fit(_, _, _, _, _)
Fit(t, j, space, wh, encoding) ==
    IF j < Len(t)
    THEN LET w == MeasureText(t[j + 1], encoding) * ScaleOf(wh)
         IN IF w > space THEN [j |-> j, space |-> space, w |-> w]
            ELSE Fit(t, j + 1, space - w, wh, encoding)
    ELSE [j |-> j, space |-> space, w |-> 0]

\* wrapText: result.push({ data: res, margin: space * align / 2, height });
\* the margin is kept doubled (margin2 = space * align), as space * align
\* may be odd
PushRow(s, column) ==
    [s EXCEPT !.result = Append(@, [data |-> s.res,
                                    margin2 |-> s.space * column.align,
                                    height |-> s.height]),
              !.space = column.width,
              !.res = <<>>,
              !.height = 1]

\* the glyphs that fit are appended to the row and the space is left as
\* it was
TakeFitKeep(t, s, fit) ==
    IF fit.j > 0
    THEN [s EXCEPT !.res = Append(@, [ul |-> s.ul, em |-> s.em, iv |-> s.iv,
                                      wh |-> s.wh, text |-> SubSeq(t, 1, fit.j)]),
                   !.height = MaxOf(@, HeightOf(s.wh))]
    ELSE s

\* wrapText: if (j > 0), the glyphs that fit are appended to the row
\* with the decoration in force, and the row height is updated
TakeFit(t, s, fit) ==
    IF fit.j > 0
    THEN [s EXCEPT !.space = fit.space,
                   !.res = Append(@, [ul |-> s.ul, em |-> s.em, iv |-> s.iv,
                                      wh |-> s.wh, text |-> SubSeq(t, 1, fit.j)]),
                   !.height = MaxOf(@, HeightOf(s.wh))]
    ELSE s

\* wrapText: the loop over the glyphs t of one literal run: a glyph wider
\* than the column is dropped, a full row is pushed
RECURSIVE WrapRun(_, _, _, _)
WrapNext(t1, s1, w, column, encoding) ==
    IF w > column.width
    THEN WrapRun(Tail(t1), s1, column, encoding)
    ELSE IF w > s1.space \/ s1.space = 0
    THEN WrapRun(t1, PushRow(s1, column), column, encoding)
    ELSE WrapRun(t1, s1, column, encoding)

WrapFit(t, s, column, encoding, fit) ==
    WrapNext(SubSeq(t, fit.j + 1, Len(t)), TakeFit(t, s, fit), fit.w, column,
             encoding)

WrapRun(t, s, column, encoding) ==
    IF t = <<>> THEN s
    ELSE WrapFit(t, s, column, encoding, Fit(t, 0, s.space, s.wh, encoding))

\* wrapText: one element of the segment stream; the elements at the even
\* places of the source (0-based) are literal runs, the others decorations
\* ("BQ" is written for the backquote, which a TLA+ string cannot hold)
WrapSegment(text, i, s, column, encoding) ==
    IF i % 2 = 0 THEN WrapRun(text, s, column, encoding)
    ELSE CASE text = "\n" -> PushRow(s, column)
           [] text = "_" -> [s EXCEPT !.ul = ~@]
           [] text = "\"" -> [s EXCEPT !.em = ~@]
           [] text = "BQ" -> [s EXCEPT !.iv = ~@]
           [] OTHER -> LET d == MinOf(CaretLen(text), 7)
                       IN [s EXCEPT !.wh = IF @ = d THEN 0 ELSE d]

RECURSIVE WrapFrom(_, _, _, _)
WrapFrom(i, s, column, encoding) ==
    IF i >= Len(column.text) THEN s
    ELSE WrapFrom(i + 1, WrapSegment(column.text[i + 1], i, s, column, encoding),
                  column, encoding)

\* wrapText: if (res.length > 0), the last row is pushed
LastRow(s, column) ==
    IF s.res # <<>> THEN PushRow(s, column).result ELSE s.result

\* wrapText: the rows of a text column
WrapText(column, encoding) ==
    LastRow(WrapFrom(0, [result |-> <<>>, space |-> column.width, height |-> 1,
                         res |-> <<>>, ul |-> FALSE, em |-> FALSE, iv |-> FALSE,
                         wh |-> 0], column, encoding),
            column)

\* ------------------------------------------------------------ createLine
\* a call of the command sink: the method and its arguments
Call(op, a) ==
    [op |-> op, a |-> a]

\* createLine: the number of columns a text line keeps
\* (columns.slice(0, Math.floor(...)))
ColumnLimit(border, cpl) ==
    IF border < 0 THEN (cpl - 1) \div 2 ELSE (cpl + border) \div (border + 1)

\* a variant of the reduce that keeps the earlier of two equal widths
RECURSIVE ReduceFirst(_, _, _)
ReduceFirst(columns, f, a) ==
    IF f = <<>> THEN a
    ELSE ReduceFirst(columns, Tail(f),
                     IF columns[a].width >= columns[Head(f)].width THEN a ELSE Head(f))

\* createLine: f.reduce((a, el) => a.width > el.width ? a : el) over the
\* fixed columns f (places in columns), a sequence that is not empty
RECURSIVE ReduceMax(_, _, _)
ReduceMax(columns, f, a) ==
    IF f = <<>> THEN a
    ELSE ReduceMax(columns, Tail(f),
                   IF columns[a].width > columns[Head(f)].width THEN a ELSE Head(f))

MaxWidthCol(columns, f) ==
    ReduceMax(columns, Tail(f), Head(f))

\* a variant that never reduces a fixed column
ShrinkNot(columns, f, v, n) ==
    [raised |-> n > v /\ f = <<>>, columns |-> columns, v |-> v]

\* createLine: while (n > v) { maxWidthCol.width--; v++; }
\* reduce() without an initial value raises a Thrown on an empty f
RECURSIVE Shrink(_, _, _, _)
Shrink(columns, f, v, n) ==
    IF n > v
    THEN IF f = <<>> THEN [raised |-> TRUE, columns |-> columns, v |-> v]
         ELSE LET m == MaxWidthCol(columns, f)
              IN Shrink([columns EXCEPT ![m].width = @ - 1], f, v + 1, n)
    ELSE [raised |-> FALSE, columns |-> columns, v |-> v]

\* a variant that gives every variable column floor(v / n)
AllocateEven(columns, g, v, n) ==
    Array([c \in 1..Len(columns) |->
        IF \E k \in 1..Len(g) : g[k] = c
        THEN [columns[c] EXCEPT !.width = v \div n]
        ELSE columns[c]])

\* createLine: g.forEach((el, i) => el.width = Math.floor((v + i) / n))
\* g[k] is the place in columns of the k-th variable column (i = k - 1)
Allocate(columns, g, v, n) ==
    Array([c \in 1..Len(columns) |->
        IF \E k \in 1..Len(g) : g[k] = c
        THEN LET k == CHOOSE k \in 1..Len(g) : g[k] = c
             IN [columns[c] EXCEPT !.width = (v + (k - 1)) \div n]
        ELSE columns[c]])

\* createLine: the columns of the line without the zero width columns
\* and, in a text line, without the overflowing ones
KeptColumns(line, text, cpl) ==
    LET kept == Indices(line, {i \in 1..Len(line) : line[i].width # 0})
        limit == ColumnLimit(line[1].border, cpl)
    IN Array([i \in 1..(IF text THEN MinOf(Len(kept), limit) ELSE Len(kept)) |->
                line[kept[i]]])

\* createLine: the free width: cpl less the reserved width u and, in a
\* text line, the width of the borders
FreeWidth(column, text, columns, f, cpl) ==
    cpl - SumSeq([i \in 1..Len(f) |-> columns[f[i]].width])
        - (IF text /\ Len(columns) > 0
           THEN (IF column.border < 0 THEN Len(columns) + 1
                 ELSE (Len(columns) - 1) * column.border)
           ELSE 0)

\* a print area whose right margin is the whole of the free width
PrintAreaWide(column, text, columns, f, g, shrunk, v, cpl) ==
    [raised |-> shrunk.raised, text |-> text, columns |-> columns,
     f |-> f, g |-> g, n |-> Len(g), v0 |-> shrunk.v,
     left |-> (v * column.alignment) \div 2,
     width |-> cpl - v,
     right |-> v]

\* createLine: the print area, from the free width v left after the
\* variable columns took theirs
PrintArea(column, text, columns, f, g, shrunk, v, cpl) ==
    [raised |-> shrunk.raised, text |-> text, columns |-> columns,
     f |-> f, g |-> g, n |-> Len(g), v0 |-> shrunk.v,
     left |-> (v * column.alignment) \div 2,
     width |-> cpl - v,
     right |-> v - (v * column.alignment) \div 2]

LayoutShrunk(column, text, f, g, shrunk, cpl) ==
    PrintArea(column, text,
              IF Len(g) > 0 THEN Allocate(shrunk.columns, g, shrunk.v, Len(g))
              ELSE shrunk.columns,
              f, g, shrunk, IF Len(g) > 0 THEN 0 ELSE shrunk.v, cpl)

LayoutFixed(column, text, columns, f, g, cpl) ==
    LayoutShrunk(column, text, f, g,
                 Shrink(columns, f, FreeWidth(column, text, columns, f, cpl), Len(g)),
                 cpl)

LayoutColumns(column, text, columns, cpl) ==
    LayoutFixed(column, text, columns,
                Indices(columns, {i \in 1..Len(columns) : columns[i].width > 0}),
                Indices(columns, {i \in 1..Len(columns) : columns[i].width < 0}), cpl)

LayoutText(line, text, cpl) ==
    LayoutColumns(line[1], text, KeptColumns(line, text, cpl), cpl)

\* createLine, up to the print area: the columns kept with their final
\* widths, the fixed (f) and variable (g) ones by their places, the free
\* width v0 after the fixed columns were reduced, the number n of
\* variable columns and the print area
Layout(line, cpl) ==
    LayoutText(line, \A i \in 1..Len(line) : "text" \in line[i].has, cpl)

\* createLine: the commands that start the rules
StartRules(left, width, right, widths) ==
    <<Call("normal", <<>>), Call("area", <<left, width, right>>),
      Call("align", <<0>>), Call("vrstart", <<widths>>), Call("vrlf", <<TRUE>>)>>

\* a variant that stops the rules without vrstop
StopRulesSilent(rules) ==
    <<Call("normal", <<>>), Call("area", <<rules.left, rules.width, rules.right>>),
      Call("align", <<0>>), Call("vrlf", <<FALSE>>)>>

\* createLine and transform: the commands that stop the rules, from the
\* saved state.rules
StopRules(rules) ==
    <<Call("normal", <<>>), Call("area", <<rules.left, rules.width, rules.right>>),
      Call("align", <<0>>), Call("vrstop", <<rules.widths>>), Call("vrlf", <<FALSE>>)>>

\* a variant that passes the widths of the two rows the other way round
TieInSwapped(left, width, right, widths, rules, cpl) ==
    <<Call("normal", <<>>),
      Call("area", <<MinOf(left, rules.left),
                     cpl - MinOf(left, rules.left) - MinOf(right, rules.right),
                     MinOf(right, rules.right)>>),
      Call("align", <<0>>),
      Call("vrhr", <<widths, rules.widths, left - rules.left,
                     (left - rules.left) + (width - rules.width)>>),
      Call("lf", <<>>)>>

\* createLine, case 'horizontal': the commands that print the horizontal
\* rule between the previous ruled row (state.rules) and this one
TieIn(left, width, right, widths, rules, cpl) ==
    LET m == left - rules.left
        w == width - rules.width
        l == MinOf(left, rules.left)
        r == MinOf(right, rules.right)
    IN <<Call("normal", <<>>), Call("area", <<l, cpl - l - r, r>>),
         Call("align", <<0>>), Call("vrhr", <<rules.widths, widths, m, m + w>>),
         Call("lf", <<>>)>>

\* createLine: the commands that decorate and print the data of one
\* wrapped row of a column
RECURSIVE TextData(_)
TextData(data) ==
    IF data = <<>> THEN <<>>
    ELSE LET d == Head(data)
         IN <<Call("normal", <<>>)>>
            \o (IF d.ul THEN <<Call("ul", <<>>)>> ELSE <<>>)
            \o (IF d.em THEN <<Call("em", <<>>)>> ELSE <<>>)
            \o (IF d.iv THEN <<Call("iv", <<>>)>> ELSE <<>>)
            \o (IF d.wh # 0 THEN <<Call("wh", <<d.wh>>)>> ELSE <<>>)
            \o <<Call("text", <<d.text>>)>>
            \o TextData(Tail(data))

\* createLine: the columns of row j (0-based) from column i on, p the
\* print position; relative() is given the doubled margin
RECURSIVE RowColumns(_, _, _, _, _, _)
RowColumns(cols, columns, border, j, i, p) ==
    IF i > Len(cols) THEN <<>>
    ELSE <<Call("absolute", <<p>>)>>
         \o (IF j < Len(cols[i])
             THEN <<Call("relative", <<cols[i][j + 1].margin2>>)>>
                  \o TextData(cols[i][j + 1].data)
             ELSE <<Call("normal", <<>>), Call("text", << <<" ">> >>)>>)
         \o RowColumns(cols, columns, border, j, i + 1,
                       p + columns[i].width + Abs(border))

\* createLine: the maximum height of row j over the columns
RECURSIVE RowHeight(_, _, _, _)
RowHeight(cols, j, i, a) ==
    IF i > Len(cols) THEN a
    ELSE RowHeight(cols, j, i + 1,
                   IF j < Len(cols[i]) THEN MaxOf(a, cols[i][j + 1].height) ELSE a)

\* createLine: row j of a text line
Row(cols, columns, widths, lay, border, running, j) ==
    <<Call("normal", <<>>), Call("area", <<lay.left, lay.width, lay.right>>),
      Call("align", <<0>>)>>
    \o (IF running
        THEN <<Call("normal", <<>>), Call("absolute", <<0>>),
               Call("vr", <<widths, RowHeight(cols, j, 1, 1)>>)>>
        ELSE <<>>)
    \o RowColumns(cols, columns, border, j, 1, IF running THEN 1 ELSE 0)
    \o <<Call("lf", <<>>)>>

RECURSIVE Rows(_, _, _, _, _, _, _, _)
Rows(cols, columns, widths, lay, border, running, j, row) ==
    IF j >= row THEN <<>>
    ELSE Row(cols, columns, widths, lay, border, running, j)
         \o Rows(cols, columns, widths, lay, border, running, j + 1, row)

\* a variant that never counts the wrapped rows
MaxRowsFirst(cols, i, a) ==
    a

\* createLine: cols.reduce((a, col) => Math.max(a, col.length), 1)
RECURSIVE MaxRows(_, _, _)
MaxRows(cols, i, a) ==
    IF i > Len(cols) THEN a ELSE MaxRows(cols, i + 1, MaxOf(a, Len(cols[i])))

\* createLine, if (text): the rules of the state, the saved geometry and
\* the rows of the wrapped columns cols
TextRows(column, lay, cols, widths, printer, state) ==
    [out |-> (CASE state.line = "ready" ->
                     StartRules(lay.left, lay.width, lay.right, widths)
                [] state.line = "horizontal" ->
                     TieIn(lay.left, lay.width, lay.right, widths, state.rules,
                           printer.cpl)
                [] OTHER -> <<>>)
             \o Rows(cols, lay.columns, widths, lay, column.border,
                     state.line \in {"ready", "horizontal", "running"}, 0,
                     IF column.wrap THEN MaxRows(cols, 1, 1) ELSE 1),
     state |-> [state EXCEPT
                  !.line = IF @ \in {"ready", "horizontal"} THEN "running" ELSE @,
                  !.rules = [left |-> lay.left, width |-> lay.width,
                             right |-> lay.right, widths |-> widths]]]

TextLine(column, lay, printer, state) ==
    TextRows(column, lay,
             Array([i \in 1..Len(lay.columns) |->
                      WrapText(lay.columns[i], printer.encoding)]),
             Array([i \in 1..Len(lay.columns) |-> lay.columns[i].width]),
             printer, state)

\* a variant that prints the divider over the whole of cpl columns
HrRuleWide(lay, state) ==
    CASE state.line = "waiting" ->
           [out |-> <<Call("normal", <<>>),
                      Call("area", <<0, lay.left + lay.width + lay.right, 0>>),
                      Call("align", <<0>>),
                      Call("hr", <<lay.left + lay.width + lay.right>>),
                      Call("lf", <<>>)>>,
            state |-> state]
      [] state.line = "running" ->
           [out |-> <<>>, state |-> [state EXCEPT !.line = "horizontal"]]
      [] OTHER -> [out |-> <<>>, state |-> state]

\* createLine, process horizontal rule: printed at once when no rules
\* are open, deferred to the next text line when they are running
HrRule(lay, state) ==
    CASE state.line = "waiting" ->
           [out |-> <<Call("normal", <<>>),
                      Call("area", <<lay.left, lay.width, lay.right>>),
                      Call("align", <<0>>), Call("hr", <<lay.width>>),
                      Call("lf", <<>>)>>,
            state |-> state]
      [] state.line = "running" ->
           [out |-> <<>>, state |-> [state EXCEPT !.line = "horizontal"]]
      [] OTHER -> [out |-> <<>>, state |-> state]

\* a variant whose paper cut leaves the rule state waiting
HrLineWaiting(column, lay, state) ==
    IF column.hr = "="
    THEN IF state.line \in {"running", "horizontal"}
         THEN [out |-> StopRules(state.rules) \o <<Call("cut", <<>>)>>,
               state |-> [state EXCEPT !.line = "waiting"]]
         ELSE [out |-> <<Call("cut", <<>>)>>, state |-> state]
    ELSE HrRule(lay, state)

\* a variant whose paper cut never stops the rules
HrLineNoStop(column, lay, state) ==
    IF column.hr = "="
    THEN [out |-> <<Call("cut", <<>>)>>,
          state |-> [state EXCEPT
                       !.line = IF @ \in {"running", "horizontal"}
                                THEN "ready" ELSE @]]
    ELSE HrRule(lay, state)

\* createLine, if ('hr' in column): paper cut or horizontal rule
\* (a paper cut inside open rules sets the state "to start rules")
HrLine(column, lay, state) ==
    IF column.hr = "="
    THEN IF state.line \in {"running", "horizontal"}
         THEN [out |-> StopRules(state.rules) \o <<Call("cut", <<>>)>>,
               state |-> [state EXCEPT !.line = "ready"]]
         ELSE [out |-> <<Call("cut", <<>>)>>, state |-> state]
    ELSE HrRule(lay, state)

\* a variant that stops the rules in state ready as well
VrLineAlways(column, state) ==
    IF column.vr = "+"
    THEN [out |-> <<>>, state |-> [state EXCEPT !.line = "ready"]]
    ELSE [out |-> StopRules(state.rules),
          state |-> [state EXCEPT !.line = "waiting"]]

\* a variant whose start of rules leaves the rule state as it is
VrLineIdle(column, state) ==
    IF column.vr = "+"
    THEN [out |-> <<>>, state |-> state]
    ELSE CASE state.line = "ready" ->
                [out |-> <<>>, state |-> [state EXCEPT !.line = "waiting"]]
           [] state.line \in {"running", "horizontal"} ->
                [out |-> StopRules(state.rules),
                 state |-> [state EXCEPT !.line = "waiting"]]
           [] OTHER -> [out |-> <<>>, state |-> state]

\* createLine, if ('vr' in column): start or stop the rules
VrLine(column, state) ==
    IF column.vr = "+"
    THEN [out |-> <<>>, state |-> [state EXCEPT !.line = "ready"]]
    ELSE CASE state.line = "ready" ->
                [out |-> <<>>, state |-> [state EXCEPT !.line = "waiting"]]
           [] state.line \in {"running", "horizontal"} ->
                [out |-> StopRules(state.rules),
                 state |-> [state EXCEPT !.line = "waiting"]]
           [] OTHER -> [out |-> <<>>, state |-> state]

\* createLine: image, barcode or 2D code, command of the first column
Content(column, lay) ==
    LET head(align) == <<Call("normal", <<>>),
                         Call("area", <<lay.left, lay.width, lay.right>>),
                         Call("align", <<align>>)>>
    IN (IF "image" \in column.has /\ column.image # <<>>
        THEN head(column.align) \o <<Call("image", <<column.image>>)>> ELSE <<>>)
       \o (IF "code" \in column.has
           THEN head(column.align)
                \o <<Call(IF column.code.type = "qrcode" THEN "qrcode" ELSE "barcode",
                          <<column.code>>)>>
           ELSE <<>>)
       \o (IF "command" \in column.has /\ column.command # <<>>
           THEN head(column.align) \o <<Call("command", <<column.command>>)>>
           ELSE <<>>)

\* createLine: the parts of a line in the order of the source: text
\* (t), horizontal rule or paper cut (h), rules (r), then image, code and
\* command
AfterVr(column, lay, t, h, r) ==
    [raised |-> FALSE, out |-> t.out \o h.out \o r.out \o Content(column, lay),
     state |-> r.state, lay |-> lay]

AfterHr(column, lay, t, h) ==
    AfterVr(column, lay, t, h,
            IF "vr" \in column.has THEN VrLine(column, h.state)
            ELSE [out |-> <<>>, state |-> h.state])

AfterText(column, lay, t) ==
    AfterHr(column, lay, t,
            IF "hr" \in column.has THEN HrLine(column, lay, t.state)
            ELSE [out |-> <<>>, state |-> t.state])

CreateLaid(column, lay, printer, state) ==
    IF lay.raised
    THEN [raised |-> TRUE, out |-> <<>>, state |-> state, lay |-> lay]
    ELSE AfterText(column, lay,
                   IF lay.text THEN TextLine(column, lay, printer, state)
                   ELSE [out |-> <<>>, state |-> state])

\* createLine: the commands of one parsed line and the state after it;
\* raised when the layout raises, before any command is issued
CreateLine(line, printer, state) ==
    CreateLaid(line[1], Layout(line, printer.cpl), printer, state)

\* ------------------------------------------------------------- documents
\* raw columns: a text column with its segment stream, a property block
\* with its members, a column with a stray brace, a run of '-' or of '='
RawText(lead, trail, text) ==
    [kind |-> "text", lead |-> lead, trail |-> trail, text |-> text,
     members |-> <<>>]

RawBlock(members) ==
    [kind |-> "block", lead |-> FALSE, trail |-> FALSE, text |-> <<>>,
     members |-> members]

RawBrace ==
    [kind |-> "brace", lead |-> FALSE, trail |-> FALSE, text |-> <<>>,
     members |-> <<>>]

RawRun(kind, glyphs) ==
    [kind |-> kind, lead |-> FALSE, trail |-> FALSE, text |-> <<glyphs>>,
     members |-> <<>>]

KV(key, val) ==
    [m |-> "kv", key |-> key, val |-> val]

BadMember ==
    [m |-> "bad", key |-> "", val |-> <<>>]

BlankMember ==
    [m |-> "blank", key |-> "", val |-> <<>>]

\* the text lines of the model's documents
TextLines ==
    LET a == RawText(FALSE, FALSE, << <<"a">> >>)
        l == RawText(FALSE, TRUE, << <<"a", "b">> >>)
        r == RawText(TRUE, FALSE, << <<"c">> >>)
        long == RawText(FALSE, FALSE, << <<"a", "b", "c", "d", "e">> >>)
        deco == RawText(FALSE, FALSE,
                        << <<"a">>, "^", <<"b", "W">>, "\n", <<>>, "_", <<"c">> >>)
        empty == RawText(FALSE, FALSE, << <<>> >>)
    IN {<<empty>>, <<long>>, <<deco>>, <<l, r>>,
        <<RawRun("dash", <<"-", "-">>), a, a>>}

\* the rule and cut markers
MarkerLines ==
    {<<RawRun("dash", <<"-", "-", "-">>)>>, <<RawRun("equal", <<"=">>)>>}

\* the lines of one property block
PropertyLines ==
    {<<RawBlock(<<KV("border", <<"LINE">>)>>)>>,
     <<RawBlock(<<KV("b", <<"2">>)>>)>>,
     <<RawBlock(<<KV("width", <<"*", "2">>)>>)>>,
     <<RawBlock(<<KV("w", <<"3", "9">>), BlankMember>>)>>,
     <<RawBlock(<<KV("width", <<"auto">>)>>)>>,
     <<RawBlock(<<KV("w", <<"1", "1">>)>>)>>,
     <<RawBlock(<<KV("text", <<"NoWrap">>)>>)>>,
     <<RawBlock(<<KV("align", <<"left">>)>>)>>,
     <<RawBlock(<<KV("code", <<"1234567">>), KV("option", <<"qrcode", "4", "hri">>),
                  KV("comment", <<"note">>)>>)>>,
     <<RawBlock(<<KV("image", <<"A", "B", "=">>), KV("x", <<"ESC">>)>>)>>,
     <<RawBlock(<<KV("code", <<"1234567">>), BadMember>>)>>}

\* the lines of two or more columns that hold a property block or a
\* column in error
MixedLines ==
    LET a == RawText(FALSE, FALSE, << <<"a">> >>)
    IN {<<a, RawBlock(<<KV("border", <<"line">>), KV("code", <<"1234567">>)>>)>>,
        <<RawBlock(<<KV("border", <<"none">>), KV("width", <<"2">>),
                     KV("align", <<"right">>), KV("text", <<"nowrap">>),
                     KV("option", <<"ean">>), KV("image", <<"A">>),
                     KV("command", <<"ESC">>)>>), a>>,
        <<a, RawBrace>>,
        <<RawBlock(<<BadMember>>), a, a>>}

Lines ==
    TextLines \cup MarkerLines \cup PropertyLines \cup MixedLines

\* the printer configurations: cpl and encoding (parseOption)
Printers ==
    {[cpl |-> c, encoding |-> "cp437"] : c \in 1..MaxCpl}

\* ------------------------------------------------- parseLine, characters
\* A line as parseLine receives it is a sequence of characters, each a
\* one-character string ("BQ" is written for the backquote).
Whitespace ==
    {" ", "\t"}

HexDigits ==
    {"0", "1", "2", "3", "4", "5", "6", "7", "8", "9",
     "a", "b", "c", "d", "e", "f", "A", "B", "C", "D", "E", "F"}

\* the characters of the model's lines with their codes, as two
\* lower-case hexadecimal digits (charCodeAt(1).toString(16))
CharCodes ==
    [c \in {"\\", "{", "|", "}", ";", "-", "=", "_", "\"", "BQ", "^", "~", "A", "\n"} |->
        CASE c = "\\" -> <<"5", "c">> [] c = "{" -> <<"7", "b">>
          [] c = "|" -> <<"7", "c">> [] c = "}" -> <<"7", "d">>
          [] c = ";" -> <<"3", "b">> [] c = "-" -> <<"2", "d">>
          [] c = "=" -> <<"3", "d">> [] c = "_" -> <<"5", "f">>
          [] c = "\"" -> <<"2", "2">> [] c = "BQ" -> <<"6", "0">>
          [] c = "^" -> <<"5", "e">> [] c = "~" -> <<"7", "e">>
          [] c = "A" -> <<"4", "1">> [] c = "\n" -> <<"0", "a">>]

\* parseInt(hex, 16) reads a hexadecimal digit in either case
LowerHex(d) ==
    CASE d = "A" -> "a" [] d = "B" -> "b" [] d = "C" -> "c"
      [] d = "D" -> "d" [] d = "E" -> "e" [] d = "F" -> "f"
      [] OTHER -> d

\* String.fromCharCode(parseInt(hex, 16)) of two hexadecimal digits; "ESC"
\* and the like stand for the characters the model's lines do not hold
FromCharCode(h, l) ==
    LET hex == <<LowerHex(h), LowerHex(l)>>
    IN IF \E c \in DOMAIN CharCodes : CharCodes[c] = hex
       THEN CHOOSE c \in DOMAIN CharCodes : CharCodes[c] = hex
       ELSE "x" \o hex[1] \o hex[2]

\* replace(/^[\t ]+|[\t ]+$/g, '')
RECURSIVE TrimStart(_)
TrimStart(s) ==
    IF s # <<>> /\ Head(s) \in Whitespace THEN TrimStart(Tail(s)) ELSE s

RECURSIVE TrimEnd(_)
TrimEnd(s) ==
    IF s # <<>> /\ s[Len(s)] \in Whitespace
    THEN TrimEnd(SubSeq(s, 1, Len(s) - 1)) ELSE s

Trim(s) ==
    TrimEnd(TrimStart(s))

\* replace(/\\[...]/g, match => '\\x' + match.charCodeAt(1).toString(16)):
\* a backslash before a character of the set becomes \xHH
RECURSIVE ToHexEscape(_, _)
ToHexEscape(s, set) ==
    IF s = <<>> THEN <<>>
    ELSE IF Head(s) = "\\" /\ Len(s) >= 2 /\ s[2] \in set
    THEN <<"\\", "x">> \o CharCodes[s[2]] \o ToHexEscape(SubSeq(s, 3, Len(s)), set)
    ELSE <<Head(s)>> \o ToHexEscape(Tail(s), set)

\* the places of the pipes of a line
Pipes(s) ==
    {k \in 1..Len(s) : s[k] = "|"}

\* parseLine without the space before the first column
AttractFirstNever(s) ==
    s

\* parseLine without the space after the last column
AttractLastNever(s) ==
    s

\* replace(/^[^|]*[^\t |]\|/, ' $&'): a space before a first column that
\* ends at the first pipe without whitespace
AttractFirst(s) ==
    IF \E k \in Pipes(s) : /\ \A j \in Pipes(s) : k <= j
                           /\ k >= 2
                           /\ s[k - 1] \notin Whitespace
    THEN <<" ">> \o s ELSE s

\* replace(/\|[^\t |][^|]*$/, '$& '): a space after a last column that
\* starts at the last pipe without whitespace
AttractLast(s) ==
    IF \E k \in Pipes(s) : /\ \A j \in Pipes(s) : j <= k
                           /\ k < Len(s)
                           /\ s[k + 1] \notin Whitespace
    THEN s \o <<" ">> ELSE s

\* replace(/^\|(.*)$/, '$1') and replace(/^(.*)\|$/, '$1')
DropFirstPipe(s) ==
    IF s # <<>> /\ Head(s) = "|" THEN Tail(s) ELSE s

DropLastPipe(s) ==
    IF s # <<>> /\ s[Len(s)] = "|" THEN SubSeq(s, 1, Len(s) - 1) ELSE s

\* String.prototype.split(sep) for a separator of one character
RECURSIVE SplitAt(_, _, _)
SplitAt(s, sep, piece) ==
    IF s = <<>> THEN <<piece>>
    ELSE IF Head(s) = sep THEN <<piece>> \o SplitAt(Tail(s), sep, <<>>)
    ELSE SplitAt(Tail(s), sep, Append(piece, Head(s)))

\* parseLine: the columns of a line, as character sequences
SplitColumns(columns) ==
    SplitAt(DropLastPipe(DropFirstPipe(AttractLast(AttractFirst(
              ToHexEscape(Trim(columns), {"\\", "{", "|", "}"}))))),
            "|", <<>>)

\* parseEscape, replace(/\\$|\\x(.?$|[^\dA-Fa-f].|.[^\dA-Fa-f])/g, ''):
\* a backslash at the end, and \x that two hexadecimal digits do not
\* follow, are removed ('.' does not match a line feed)
RECURSIVE RemoveInvalid(_)
RemoveInvalid(s) ==
    IF s = <<>> THEN <<>>
    ELSE IF Head(s) # "\\" THEN <<Head(s)>> \o RemoveInvalid(Tail(s))
    ELSE IF Len(s) = 1 THEN <<>>
    ELSE IF s[2] # "x" THEN <<Head(s)>> \o RemoveInvalid(Tail(s))
    ELSE IF Len(s) = 2 THEN <<>>
    ELSE IF Len(s) = 3 /\ s[3] # "\n" THEN <<>>
    ELSE IF Len(s) >= 4 /\ s[3] \notin HexDigits /\ s[4] # "\n"
    THEN RemoveInvalid(SubSeq(s, 5, Len(s)))
    ELSE IF Len(s) >= 4 /\ s[3] # "\n" /\ s[4] \notin HexDigits
    THEN RemoveInvalid(SubSeq(s, 5, Len(s)))
    ELSE <<Head(s)>> \o RemoveInvalid(Tail(s))

\* parseEscape, replace(/\\[^x]/g, ''): a backslash and the character
\* after it, unless that is x
RECURSIVE RemoveIgnored(_)
RemoveIgnored(s) ==
    IF s = <<>> THEN <<>>
    ELSE IF Head(s) = "\\" /\ Len(s) >= 2 /\ s[2] # "x"
    THEN RemoveIgnored(SubSeq(s, 3, Len(s)))
    ELSE <<Head(s)>> \o RemoveIgnored(Tail(s))

\* parseEscape, replace(/\\x([\dA-Fa-f]{2})/g, ...fromCharCode...)
RECURSIVE DecodeHex(_)
DecodeHex(s) ==
    IF s = <<>> THEN <<>>
    ELSE IF /\ Len(s) >= 4
            /\ s[1] = "\\" /\ s[2] = "x"
            /\ s[3] \in HexDigits /\ s[4] \in HexDigits
    THEN <<FromCharCode(s[3], s[4])>> \o DecodeHex(SubSeq(s, 5, Len(s)))
    ELSE <<Head(s)>> \o DecodeHex(Tail(s))

parseEscape(chars) ==
    DecodeHex(RemoveIgnored(RemoveInvalid(chars)))

\* parse text that keeps the control codes
RemoveControlNot(s) ==
    s

\* parse text, replace(/[\x00-\x1f\x7f]|\\x[01][\dA-Fa-f]|\\x7[Ff]/g, ''):
\* control codes (the tab, of the model's characters) and their escapes
RECURSIVE RemoveControl(_)
RemoveControl(s) ==
    IF s = <<>> THEN <<>>
    ELSE IF Head(s) \in {"\t", "\n"} THEN RemoveControl(Tail(s))
    ELSE IF /\ Len(s) >= 4
            /\ s[1] = "\\" /\ s[2] = "x"
            /\ \/ s[3] \in {"0", "1"} /\ s[4] \in HexDigits
               \/ s[3] = "7" /\ s[4] \in {"f", "F"}
    THEN RemoveControl(SubSeq(s, 5, Len(s)))
    ELSE <<Head(s)>> \o RemoveControl(Tail(s))

\* replace(/\\n/g, '\n')
RECURSIVE ToLineFeed(_)
ToLineFeed(s) ==
    IF s = <<>> THEN <<>>
    ELSE IF Head(s) = "\\" /\ Len(s) >= 2 /\ s[2] = "n"
    THEN <<"\n">> \o ToLineFeed(SubSeq(s, 3, Len(s)))
    ELSE <<Head(s)>> \o ToLineFeed(Tail(s))

\* replace(/~/g, ' ')
ToSpace(s) ==
    [k \in 1..Len(s) |-> IF s[k] = "~" THEN " " ELSE s[k]]

\* the characters of a piece as one string
RECURSIVE Join(_)
Join(s) ==
    IF s = <<>> THEN "" ELSE Head(s) \o Join(Tail(s))

\* the length of the run of carets a sequence starts with
RECURSIVE Carets(_)
Carets(s) ==
    IF s # <<>> /\ Head(s) = "^" THEN 1 + Carets(Tail(s)) ELSE 0

\* split(/([_"`\n]|\^+)/): the literal pieces and, between them, the
\* separators (one string each)
RECURSIVE SplitText(_, _)
SplitText(s, piece) ==
    IF s = <<>> THEN <<piece>>
    ELSE IF Head(s) \in {"_", "\"", "BQ", "\n"}
    THEN <<piece, Head(s)>> \o SplitText(Tail(s), <<>>)
    ELSE IF Head(s) = "^"
    THEN <<piece, Join(SubSeq(s, 1, Carets(s)))>>
         \o SplitText(SubSeq(s, Carets(s) + 1, Len(s)), <<>>)
    ELSE SplitText(Tail(s), Append(piece, Head(s)))

\* parse text: the segment stream of an element; parseEscape leaves a
\* separator as it is
ParseText(element) ==
    LET pieces == SplitText(ToSpace(ToLineFeed(ToHexEscape(RemoveControl(element),
                              {"-", "=", "_", "\"", "BQ", "^", "~"}))), <<>>)
    IN [k \in 1..Len(pieces) |->
          IF k % 2 = 1 THEN parseEscape(pieces[k]) ELSE pieces[k]]

\* \w, and the first character of a key
Digits ==
    {"0", "1", "2", "3", "4", "5", "6", "7", "8", "9"}

WordChars ==
    {"a", "b", "c", "d", "e", "f", "g", "h", "i", "j", "k", "l", "m", "n", "o", "p",
     "q", "r", "s", "t", "u", "v", "w", "x", "y", "z",
     "A", "B", "C", "D", "E", "F", "G", "H", "I", "J", "K", "L", "M", "N", "O", "P",
     "Q", "R", "S", "T", "U", "V", "W", "X", "Y", "Z", "_"} \cup Digits

\* the length of the run of word characters a sequence starts with
RECURSIVE WordLen(_)
WordLen(s) ==
    IF s # <<>> /\ Head(s) \in WordChars THEN 1 + WordLen(Tail(s)) ELSE 0

\* split(/[\t ]+|,/) of a property value: the tokens, one string each
RECURSIVE Tokens(_, _)
Tokens(s, piece) ==
    IF s = <<>> THEN <<Join(piece)>>
    ELSE IF Head(s) = "," THEN <<Join(piece)>> \o Tokens(Tail(s), <<>>)
    ELSE IF Head(s) \in Whitespace
    THEN <<Join(piece)>> \o Tokens(TrimStart(s), <<>>)
    ELSE Tokens(Tail(s), Append(piece, Head(s)))

\* obj[expandedKey] = parseEscape(value.replace(/\\n/g, '\n')): the value
\* of a member, as the tokens the properties are read by
MemberValue(value) ==
    LET chars == parseEscape(ToLineFeed(value))
    IN IF chars = <<>> THEN <<>> ELSE Tokens(chars, <<>>)

\* a member after its key: /[\t ]*:[\t ]*([^\t ].*?)[\t ]*$/
MemberAfterKey(key, rest) ==
    IF rest # <<>> /\ Head(rest) = ":" /\ Trim(Tail(rest)) # <<>>
    THEN KV(Join(key), MemberValue(Trim(Tail(rest))))
    ELSE BadMember

\* one member of a property block: blank, key: value, or invalid
\* (/^[\t ]*([A-Za-z_]\w*)[\t ]*:[\t ]*([^\t ].*?)[\t ]*$/)
ParseMember(member) ==
    LET m == TrimStart(member)
    IN IF m = <<>> THEN BlankMember
       ELSE IF WordLen(m) = 0 \/ Head(m) \in Digits
       THEN BadMember
       ELSE MemberAfterKey(SubSeq(m, 1, WordLen(m)),
                           TrimStart(SubSeq(m, WordLen(m) + 1, Len(m))))

\* element.slice(1, -1).replace(/\;/g, '\\x3b').split(';')
SplitMembers(element) ==
    LET members == SplitAt(ToHexEscape(SubSeq(element, 2, Len(element) - 1), {";"}),
                           ";", <<>>)
    IN [k \in 1..Len(members) |-> ParseMember(members[k])]

\* the tests of parseLine on an element
IsBlock(element) ==
    /\ Len(element) >= 2
    /\ Head(element) = "{"
    /\ element[Len(element)] = "}"
    /\ \A k \in 2..(Len(element) - 1) : element[k] \notin {"{", "}"}

IsRun(element, c) ==
    element # <<>> /\ \A k \in 1..Len(element) : element[k] = c

\* parseLine, one column of the line as its characters: the alignment
\* from the whitespace around it, then the element by its kind
SplitColumn(column) ==
    LET element == Trim(column)
        lead == column # <<>> /\ Head(column) \in Whitespace
        trail == column # <<>> /\ column[Len(column)] \in Whitespace
    IN IF IsBlock(element)
       THEN [RawBlock(SplitMembers(element)) EXCEPT !.lead = lead, !.trail = trail]
       ELSE IF \E k \in 1..Len(element) : element[k] \in {"{", "}"}
       THEN [RawBrace EXCEPT !.lead = lead, !.trail = trail]
       ELSE IF IsRun(element, "-")
       THEN [RawRun("dash", element) EXCEPT !.lead = lead, !.trail = trail]
       ELSE IF IsRun(element, "=")
       THEN [RawRun("equal", element) EXCEPT !.lead = lead, !.trail = trail]
       ELSE RawText(lead, trail, ParseText(element))

\* parseLine: the columns of a line of characters
SplitLine(columns) ==
    LET array == SplitColumns(columns)
    IN [k \in 1..Len(array) |-> SplitColumn(array[k])]

\* ------------------------------------------------------------ barcode.ts
\* A payload is a sequence of characters.  The numbers of the generator
\* are integers, NaN, or absent (a hole of an array, undefined).
NaN == -1
Hole == -2

DigitChars ==
    <<"0", "1", "2", "3", "4", "5", "6", "7", "8", "9">>

\* '.' of a regular expression does not match a line terminator
LineTerminators ==
    {"\n"}

\* Number(c) of one character: a digit, white space (0), anything else
Number(c) ==
    IF c \in Digits THEN (CHOOSE i \in 1..10 : DigitChars[i] = c) - 1
    ELSE IF c \in {"\n", " ", "\t"} THEN 0
    ELSE NaN

Plus(a, b) ==
    IF a \in {NaN, Hole} \/ b \in {NaN, Hole} THEN NaN ELSE a + b

Times(a, b) ==
    IF a \in {NaN, Hole} \/ b \in {NaN, Hole} THEN NaN ELSE a * b

\* Array.prototype.join(''): a number by its digits, NaN by its name, an
\* absent element by nothing
RECURSIVE JoinNumbers(_)
JoinNumbers(d) ==
    IF d = <<>> THEN <<>>
    ELSE (CASE Head(d) = NaN -> <<"N", "a", "N">>
            [] Head(d) = Hole -> <<>>
            [] OTHER -> <<DigitChars[Head(d) + 1]>>)
         \o JoinNumbers(Tail(d))

\* data.replace(/((?!^X$).)*/, ''): a payload that matches X as a whole
\* is kept; of any other the characters up to the first line terminator
\* are removed
RECURSIVE FromTerminator(_)
FromTerminator(data) ==
    IF data = <<>> \/ Head(data) \in LineTerminators THEN data
    ELSE FromTerminator(Tail(data))

Strip(data, matches) ==
    IF matches THEN data ELSE FromTerminator(data)

AllDigits(data) ==
    \A k \in 1..Len(data) : data[k] \in Digits

\* d[index] = value only where d has no element yet
SetAtAbsent(d, index, value) ==
    [k \in 1..MaxOf(Len(d), index + 1) |->
        IF k <= Len(d) THEN d[k] ELSE IF k = index + 1 THEN value ELSE Hole]

\* d[index] = value (index from 0): the array grows, with holes, to hold it
SetAt(d, index, value) ==
    [k \in 1..MaxOf(Len(d), index + 1) |->
        IF k = index + 1 THEN value ELSE IF k <= Len(d) THEN d[k] ELSE Hole]

\* d[index] (index from 0), undefined beyond the array
At(d, index) ==
    IF index < Len(d) THEN d[index + 1] ELSE Hole

\* the check digit taken as the sum's last digit
CheckDigitPlain(sum) ==
    IF sum = NaN THEN NaN ELSE sum % 10

\* (10 - sum % 10) % 10
CheckDigit(sum) ==
    IF sum = NaN THEN NaN ELSE (10 - (sum % 10)) % 10

\* the result of a payload that is not encoded: {}
NoResult ==
    [made |-> FALSE, raised |-> FALSE, hri |-> FALSE, text |-> <<>>,
     widths |-> <<>>, length |-> 0, height |-> 0]

\* an exception is thrown: a property of undefined is read (TypeError), or
\* the call stack is exhausted (RangeError)
Thrown ==
    [NoResult EXCEPT !.raised = TRUE]

\* UPC/EAN/JAN patterns
EanA ==
    <<<<3, 2, 1, 1>>, <<2, 2, 2, 1>>, <<2, 1, 2, 2>>, <<1, 4, 1, 1>>, <<1, 1, 3, 2>>,
      <<1, 2, 3, 1>>, <<1, 1, 1, 4>>, <<1, 3, 1, 2>>, <<1, 2, 1, 3>>, <<3, 1, 1, 2>>>>

EanB ==
    <<<<1, 1, 2, 3>>, <<1, 2, 2, 2>>, <<2, 2, 1, 2>>, <<1, 1, 4, 1>>, <<2, 3, 1, 1>>,
      <<1, 3, 2, 1>>, <<4, 1, 1, 1>>, <<2, 1, 3, 1>>, <<3, 1, 2, 1>>, <<2, 1, 1, 3>>>>

EanC ==
    EanA

EanG ==
    <<<<1, 1, 1>>, <<1, 1, 1, 1, 1>>, <<1, 1, 1, 1, 1, 1>>, <<1, 1>>, <<1, 1, 2>>>>

EanP ==
    <<"aaaaaa", "aababb", "aabbab", "aabbba", "abaabb",
      "abbaab", "abbbaa", "ababab", "ababba", "abbaba">>

EanE ==
    <<"bbbaaa", "bbabaa", "bbaaba", "bbaaab", "babbaa",
      "baabba", "baaabb", "bababa", "babaab", "baabab">>

\* the parity patterns as sequences: p[k] is "a" or "b"
Parity(pattern) ==
    CASE pattern = "aaaaaa" -> <<"a", "a", "a", "a", "a", "a">>
      [] pattern = "aababb" -> <<"a", "a", "b", "a", "b", "b">>
      [] pattern = "aabbab" -> <<"a", "a", "b", "b", "a", "b">>
      [] pattern = "aabbba" -> <<"a", "a", "b", "b", "b", "a">>
      [] pattern = "abaabb" -> <<"a", "b", "a", "a", "b", "b">>
      [] pattern = "abbaab" -> <<"a", "b", "b", "a", "a", "b">>
      [] pattern = "abbbaa" -> <<"a", "b", "b", "b", "a", "a">>
      [] pattern = "ababab" -> <<"a", "b", "a", "b", "a", "b">>
      [] pattern = "ababba" -> <<"a", "b", "a", "b", "b", "a">>
      [] pattern = "abbaba" -> <<"a", "b", "b", "a", "b", "a">>
      [] pattern = "bbbaaa" -> <<"b", "b", "b", "a", "a", "a">>
      [] pattern = "bbabaa" -> <<"b", "b", "a", "b", "a", "a">>
      [] pattern = "bbaaba" -> <<"b", "b", "a", "a", "b", "a">>
      [] pattern = "bbaaab" -> <<"b", "b", "a", "a", "a", "b">>
      [] pattern = "babbaa" -> <<"b", "a", "b", "b", "a", "a">>
      [] pattern = "baabba" -> <<"b", "a", "a", "b", "b", "a">>
      [] pattern = "baaabb" -> <<"b", "a", "a", "a", "b", "b">>
      [] pattern = "bababa" -> <<"b", "a", "b", "a", "b", "a">>
      [] pattern = "babaab" -> <<"b", "a", "b", "a", "a", "b">>
      [] OTHER -> <<"b", "a", "a", "b", "a", "b">>

\* m += undefined: the characters of 'undefined', read by parseInt(c, 16)
Undefined ==
    <<NaN, NaN, 13, 14, 15, NaN, NaN, 14, 13>>

\* table[v] of a pattern table for a digit, undefined for anything else
PatternOf(table, v) ==
    IF v \in 0..9 THEN table[v + 1] ELSE Undefined

EanSet(set) ==
    IF set = "a" THEN EanA ELSE EanB

\* m.split('').map(c => parseInt(c, 16) * symbol.width)
Scale(m, width) ==
    [k \in 1..Len(m) |-> Times(m[k], width)]

\* d.reduce((a, c, i) => a + c * ((i % 2) * 2 + 1)), without initial
\* value: the first element present starts the sum, holes are skipped
RECURSIVE Sum13(_, _, _)
Sum13(d, i, a) ==
    IF i >= Len(d) THEN a
    ELSE IF d[i + 1] = Hole THEN Sum13(d, i + 1, a)
    ELSE Sum13(d, i + 1, Plus(a, Times(d[i + 1], (i % 2) * 2 + 1)))

\* d.reduce((a, c, i) => a + c * (3 - (i % 2) * 2), 0): holes are skipped
RECURSIVE Sum8(_, _, _)
Sum8(d, i, a) ==
    IF i >= Len(d) THEN a
    ELSE IF d[i + 1] = Hole THEN Sum8(d, i + 1, a)
    ELSE Sum8(d, i + 1, Plus(a, Times(d[i + 1], 3 - (i % 2) * 2)))

\* ean13: the bars and spaces of the digits d
Bars13(d, quietZone) ==
    <<IF quietZone THEN 11 ELSE 0>> \o EanG[1]
    \o Flatten([i \in 1..6 |->
                  PatternOf(EanSet(Parity(EanP[d[1] + 1])[i]), At(d, i))])
    \o EanG[2]
    \o Flatten([i \in 1..6 |-> PatternOf(EanC, At(d, i + 6))])
    \o EanG[1] \o <<IF quietZone THEN 7 ELSE 0>>

\* ean13, if (d.length > 0): the check digit, the text, the widths
Encode13(d, symbol) ==
    IF d[1] \notin 0..9 THEN Thrown
    ELSE [made |-> TRUE, raised |-> FALSE, hri |-> symbol.hri,
          text |-> JoinNumbers(d),
          widths |-> Scale(Bars13(d, symbol.quietZone), symbol.width),
          length |-> symbol.width * (IF symbol.quietZone THEN 113 ELSE 95),
          height |-> symbol.height]

Checked13(d) ==
    SetAt(d, 12, CheckDigit(Sum13(d, 1, d[1])))

\* generate EAN-13(JAN-13) data
ean13(symbol) ==
    LET d == [k \in 1..Len(Strip(symbol.data, AllDigits(symbol.data)
                                              /\ Len(symbol.data) \in {12, 13})) |->
                Number(Strip(symbol.data, AllDigits(symbol.data)
                                          /\ Len(symbol.data) \in {12, 13})[k])]
    IN IF Len(d) > 0 THEN Encode13(Checked13(SetAt(d, 12, 0)), symbol)
       ELSE NoResult

\* ean8: the bars and spaces of the digits d (d[i] ?? 0)
Bars8(d, quietZone) ==
    <<IF quietZone THEN 7 ELSE 0>> \o EanG[1]
    \o Flatten([i \in 1..4 |->
                  PatternOf(EanA, IF At(d, i - 1) = Hole THEN 0 ELSE At(d, i - 1))])
    \o EanG[2]
    \o Flatten([i \in 1..4 |->
                  PatternOf(EanC, IF At(d, i + 3) = Hole THEN 0 ELSE At(d, i + 3))])
    \o EanG[1] \o <<IF quietZone THEN 7 ELSE 0>>

Encode8(d, symbol) ==
    [made |-> TRUE, raised |-> FALSE, hri |-> symbol.hri,
     text |-> JoinNumbers(d),
     widths |-> Scale(Bars8(d, symbol.quietZone), symbol.width),
     length |-> symbol.width * (IF symbol.quietZone THEN 81 ELSE 67),
     height |-> symbol.height]

Checked8(d) ==
    SetAt(d, 7, CheckDigit(Sum8(d, 0, 0)))

\* generate EAN-8(JAN-8) data
ean8(symbol) ==
    LET s == Strip(symbol.data, AllDigits(symbol.data) /\ Len(symbol.data) \in {7, 8})
        d == [k \in 1..Len(s) |-> Number(s[k])]
    IN IF Len(d) > 0 THEN Encode8(Checked8(SetAt(d, 7, 0)), symbol)
       ELSE NoResult

\* generate UPC-A data: EAN-13 of '0' + data, the text without its first
\* character
upca(symbol) ==
    LET r == ean13([symbol EXCEPT !.type = "ean", !.data = <<"0">> \o symbol.data])
    IN IF r.text # <<>> THEN [r EXCEPT !.text = Tail(r.text)] ELSE r

\* convert UPC-E to UPC-A: the elements the switch pushes are read from e
\* (undefined where e has none), the first three are a slice of e
upcetoa(e) ==
    SubSeq(e, 1, 3)
    \o (CASE At(e, 6) \in {0, 1, 2} ->
               <<At(e, 6), 0, 0, 0, 0, At(e, 3), At(e, 4), At(e, 5)>>
          [] At(e, 6) = 3 -> <<At(e, 3), 0, 0, 0, 0, 0, At(e, 4), At(e, 5)>>
          [] At(e, 6) = 4 -> <<At(e, 3), At(e, 4), 0, 0, 0, 0, 0, At(e, 5)>>
          [] OTHER -> <<At(e, 3), At(e, 4), At(e, 5), 0, 0, 0, 0, At(e, 6)>>)
    \o <<At(e, 7)>>

\* upcetoa(d).reduce((a, c, i) => a + c * (3 - (i % 2) * 2), 0): the holes
\* of the slice are skipped, an undefined that was pushed gives NaN
RECURSIVE SumE(_, _, _)
SumE(a, i, sum) ==
    IF i >= Len(a) THEN sum
    ELSE IF i < 3 /\ a[i + 1] = Hole THEN SumE(a, i + 1, sum)
    ELSE SumE(a, i + 1, Plus(sum, Times(a[i + 1], 3 - (i % 2) * 2)))

\* upce: the bars and spaces of the digits d
BarsE(d, quietZone) ==
    <<IF quietZone THEN 7 ELSE 0>> \o EanG[1]
    \o Flatten([i \in 1..6 |->
                  PatternOf(EanSet(Parity(EanE[d[8] + 1])[i]),
                            IF At(d, i) = Hole THEN 0 ELSE At(d, i))])
    \o EanG[3] \o <<IF quietZone THEN 7 ELSE 0>>

\* upce, if (d.length > 0): ean.e[NaN] is undefined and reading its
\* element raises
EncodeE(d, symbol) ==
    IF d[8] \notin 0..9 THEN Thrown
    ELSE [made |-> TRUE, raised |-> FALSE, hri |-> symbol.hri,
          text |-> JoinNumbers(d),
          widths |-> Scale(BarsE(d, symbol.quietZone), symbol.width),
          length |-> symbol.width * (IF symbol.quietZone THEN 65 ELSE 51),
          height |-> symbol.height]

CheckedE(d) ==
    SetAt(d, 7, CheckDigit(SumE(upcetoa(d), 0, 0)))

\* generate UPC-E data
upce(symbol) ==
    LET s == Strip(symbol.data, /\ AllDigits(symbol.data)
                                /\ Len(symbol.data) \in {7, 8}
                                /\ symbol.data[1] = "0")
        d == [k \in 1..Len(s) |-> Number(s[k])]
    IN IF Len(d) > 0 THEN EncodeE(CheckedE(SetAt(d, 7, 0)), symbol)
       ELSE NoResult

\* c.charCodeAt(0) of the characters of the model's payloads
CharCodeAt(c) ==
    CASE c \in Digits -> 48 + Number(c)
      [] c = "\t" -> 9
      [] c = "\n" -> 10
      [] c = " " -> 32
      [] c = "*" -> 42
      [] c = "-" -> 45
      [] c = "A" -> 65
      [] c = "B" -> 66
      [] c = "a" -> 97
      [] c = "b" -> 98
      [] OTHER -> 233

AllAscii(data) ==
    \A k \in 1..Len(data) : CharCodeAt(data[k]) <= 127

\* the length of the run of digits a string starts with
RECURSIVE DigitRun(_)
DigitRun(s) ==
    IF s # <<>> /\ Head(s) \in Digits THEN 1 + DigitRun(Tail(s)) ELSE 0

\* s.search(/[^ -_]/): the place (from 0) of the first character that is
\* not of 0x20..0x5f, or -1
RECURSIVE Search(_, _)
Search(s, i) ==
    IF i >= Len(s) THEN -1
    ELSE IF CharCodeAt(s[i + 1]) < 32 \/ CharCodeAt(s[i + 1]) > 95 THEN i
    ELSE Search(s, i + 1)

\* /^((?!\d{4,})[lo-hi])+/: the length of the longest prefix of characters
\* of lo..hi none of which starts a run of four or more digits
RECURSIVE Prefix(_, _, _)
Prefix(s, lo, hi) ==
    IF /\ s # <<>>
       /\ CharCodeAt(Head(s)) >= lo /\ CharCodeAt(Head(s)) <= hi
       /\ DigitRun(s) < 4
    THEN 1 + Prefix(Tail(s), lo, hi) ELSE 0

\* /^\d(?=(\d\d){2,}(\D|$))/: a digit before an even number, four or
\* more, of digits
OddRun(s) ==
    DigitRun(s) >= 5 /\ DigitRun(s) % 2 = 1

\* the call stack is exhausted: code128a and code128b call each other
\* for ever on a character neither consumes
RangeError == -3

c128 ==
    [starta |-> 103, startb |-> 104, startc |-> 105, atob |-> 100, atoc |-> 99,
     btoa |-> 101, btoc |-> 99, ctoa |-> 101, ctob |-> 100, shift |-> 98,
     stop |-> 106]

\* c128.element: the bars and spaces of the values 0..106
C128Element ==
    <<<<2, 1, 2, 2, 2, 2>>, <<2, 2, 2, 1, 2, 2>>, <<2, 2, 2, 2, 2, 1>>, <<1, 2, 1, 2, 2, 3>>,
      <<1, 2, 1, 3, 2, 2>>, <<1, 3, 1, 2, 2, 2>>, <<1, 2, 2, 2, 1, 3>>, <<1, 2, 2, 3, 1, 2>>,
      <<1, 3, 2, 2, 1, 2>>, <<2, 2, 1, 2, 1, 3>>, <<2, 2, 1, 3, 1, 2>>, <<2, 3, 1, 2, 1, 2>>,
      <<1, 1, 2, 2, 3, 2>>, <<1, 2, 2, 1, 3, 2>>, <<1, 2, 2, 2, 3, 1>>, <<1, 1, 3, 2, 2, 2>>,
      <<1, 2, 3, 1, 2, 2>>, <<1, 2, 3, 2, 2, 1>>, <<2, 2, 3, 2, 1, 1>>, <<2, 2, 1, 1, 3, 2>>,
      <<2, 2, 1, 2, 3, 1>>, <<2, 1, 3, 2, 1, 2>>, <<2, 2, 3, 1, 1, 2>>, <<3, 1, 2, 1, 3, 1>>,
      <<3, 1, 1, 2, 2, 2>>, <<3, 2, 1, 1, 2, 2>>, <<3, 2, 1, 2, 2, 1>>, <<3, 1, 2, 2, 1, 2>>,
      <<3, 2, 2, 1, 1, 2>>, <<3, 2, 2, 2, 1, 1>>, <<2, 1, 2, 1, 2, 3>>, <<2, 1, 2, 3, 2, 1>>,
      <<2, 3, 2, 1, 2, 1>>, <<1, 1, 1, 3, 2, 3>>, <<1, 3, 1, 1, 2, 3>>, <<1, 3, 1, 3, 2, 1>>,
      <<1, 1, 2, 3, 1, 3>>, <<1, 3, 2, 1, 1, 3>>, <<1, 3, 2, 3, 1, 1>>, <<2, 1, 1, 3, 1, 3>>,
      <<2, 3, 1, 1, 1, 3>>, <<2, 3, 1, 3, 1, 1>>, <<1, 1, 2, 1, 3, 3>>, <<1, 1, 2, 3, 3, 1>>,
      <<1, 3, 2, 1, 3, 1>>, <<1, 1, 3, 1, 2, 3>>, <<1, 1, 3, 3, 2, 1>>, <<1, 3, 3, 1, 2, 1>>,
      <<3, 1, 3, 1, 2, 1>>, <<2, 1, 1, 3, 3, 1>>, <<2, 3, 1, 1, 3, 1>>, <<2, 1, 3, 1, 1, 3>>,
      <<2, 1, 3, 3, 1, 1>>, <<2, 1, 3, 1, 3, 1>>, <<3, 1, 1, 1, 2, 3>>, <<3, 1, 1, 3, 2, 1>>,
      <<3, 3, 1, 1, 2, 1>>, <<3, 1, 2, 1, 1, 3>>, <<3, 1, 2, 3, 1, 1>>, <<3, 3, 2, 1, 1, 1>>,
      <<3, 1, 4, 1, 1, 1>>, <<2, 2, 1, 4, 1, 1>>, <<4, 3, 1, 1, 1, 1>>, <<1, 1, 1, 2, 2, 4>>,
      <<1, 1, 1, 4, 2, 2>>, <<1, 2, 1, 1, 2, 4>>, <<1, 2, 1, 4, 2, 1>>, <<1, 4, 1, 1, 2, 2>>,
      <<1, 4, 1, 2, 2, 1>>, <<1, 1, 2, 2, 1, 4>>, <<1, 1, 2, 4, 1, 2>>, <<1, 2, 2, 1, 1, 4>>,
      <<1, 2, 2, 4, 1, 1>>, <<1, 4, 2, 1, 1, 2>>, <<1, 4, 2, 2, 1, 1>>, <<2, 4, 1, 2, 1, 1>>,
      <<2, 2, 1, 1, 1, 4>>, <<4, 1, 3, 1, 1, 1>>, <<2, 4, 1, 1, 1, 2>>, <<1, 3, 4, 1, 1, 1>>,
      <<1, 1, 1, 2, 4, 2>>, <<1, 2, 1, 1, 4, 2>>, <<1, 2, 1, 2, 4, 1>>, <<1, 1, 4, 2, 1, 2>>,
      <<1, 2, 4, 1, 1, 2>>, <<1, 2, 4, 2, 1, 1>>, <<4, 1, 1, 2, 1, 2>>, <<4, 2, 1, 1, 1, 2>>,
      <<4, 2, 1, 2, 1, 1>>, <<2, 1, 2, 1, 4, 1>>, <<2, 1, 4, 1, 2, 1>>, <<4, 1, 2, 1, 2, 1>>,
      <<1, 1, 1, 1, 4, 3>>, <<1, 1, 1, 3, 4, 1>>, <<1, 3, 1, 1, 4, 1>>, <<1, 1, 4, 1, 1, 3>>,
      <<1, 1, 4, 3, 1, 1>>, <<4, 1, 1, 1, 1, 3>>, <<4, 1, 1, 3, 1, 1>>, <<1, 1, 3, 1, 4, 1>>,
      <<1, 1, 4, 1, 3, 1>>, <<3, 1, 1, 1, 4, 1>>, <<4, 1, 1, 1, 3, 1>>, <<2, 1, 1, 4, 1, 2>>,
      <<2, 1, 1, 2, 1, 4>>, <<2, 1, 1, 2, 3, 2>>, <<2, 3, 3, 1, 1, 1, 2>>>>

RECURSIVE code128a(_, _, _)
RECURSIVE code128b(_, _, _)
RECURSIVE code128c(_, _, _)

\* a code set A that takes a character of code set B without the shift
SetAUnshifted(s, d) ==
    LET t == IF s = <<>> THEN <<>> ELSE Tail(s)
        p == Search(t, 0)
    IN IF DigitRun(s) >= 4 THEN code128c(c128.atoc, s, d)
       ELSE IF p >= 0 /\ CharCodeAt(t[p + 1]) < 32
       THEN code128a(c128.shift, t, d \o <<CharCodeAt(s[1]) - 32>>)
       ELSE IF Len(s) > 0
       THEN (IF CharCodeAt(s[1]) > 127 /\ p < 0 THEN Append(d, RangeError)
             ELSE code128b(c128.atob, s, d))
       ELSE d

\* code128a, after the two replacements: s is the rest, t = s.slice(1)
SetAAfter(s, d) ==
    LET t == IF s = <<>> THEN <<>> ELSE Tail(s)
        p == Search(t, 0)
    IN IF DigitRun(s) >= 4 THEN code128c(c128.atoc, s, d)
       ELSE IF p >= 0 /\ CharCodeAt(t[p + 1]) < 32
       THEN code128a(c128.shift, t, d \o <<c128.shift, CharCodeAt(s[1]) - 32>>)
       ELSE IF Len(s) > 0
       THEN (IF CharCodeAt(s[1]) > 127 /\ p < 0 THEN Append(d, RangeError)
             ELSE code128b(c128.atob, s, d))
       ELSE d

\* code128a, the second replacement
SetAOdd(s, d) ==
    IF OddRun(s) THEN SetAAfter(Tail(s), Append(d, (CharCodeAt(s[1]) + 64) % 96))
    ELSE SetAAfter(s, d)

\* process CODE128 code set A
code128a(x, s, d) ==
    SetAOdd(SubSeq(s, Prefix(s, 0, 95) + 1, Len(s)),
            (IF x # c128.shift THEN Append(d, x) ELSE d)
            \o [k \in 1..Prefix(s, 0, 95) |-> (CharCodeAt(s[k]) + 64) % 96])

SetBAfter(s, d) ==
    LET t == IF s = <<>> THEN <<>> ELSE Tail(s)
        p == Search(t, 0)
    IN IF DigitRun(s) >= 4 THEN code128c(c128.btoc, s, d)
       ELSE IF p >= 0 /\ CharCodeAt(t[p + 1]) > 95
       THEN code128b(c128.shift, t, d \o <<c128.shift, CharCodeAt(s[1]) + 64>>)
       ELSE IF Len(s) > 0
       THEN (IF CharCodeAt(s[1]) > 127 /\ p < 0 THEN Append(d, RangeError)
             ELSE code128a(c128.btoa, s, d))
       ELSE d

SetBOdd(s, d) ==
    IF OddRun(s) THEN SetBAfter(Tail(s), Append(d, CharCodeAt(s[1]) - 32))
    ELSE SetBAfter(s, d)

\* process CODE128 code set B
code128b(x, s, d) ==
    SetBOdd(SubSeq(s, Prefix(s, 32, 127) + 1, Len(s)),
            (IF x # c128.shift THEN Append(d, x) ELSE d)
            \o [k \in 1..Prefix(s, 32, 127) |-> CharCodeAt(s[k]) - 32])

\* code128c, after the replacement
SetCAfter(s, d) ==
    LET p == Search(s, 0)
    IN IF p >= 0 /\ CharCodeAt(s[p + 1]) < 32 THEN code128a(c128.ctoa, s, d)
       ELSE IF Len(s) > 0 THEN code128b(c128.ctob, s, d)
       ELSE d

\* the pairs of digits of a run: Number(c) of each
Pairs(s, n) ==
    [k \in 1..n |-> 10 * Number(s[2 * k - 1]) + Number(s[2 * k])]

\* process CODE128 code set C: a run of four or more digits is taken in
\* pairs, an odd last digit is left
code128c(x, s, d) ==
    LET r == IF DigitRun(s) >= 4 THEN DigitRun(s) \div 2 ELSE 0
    IN SetCAfter(SubSeq(s, 2 * r + 1, Len(s)),
                 (IF x # c128.shift THEN Append(d, x) ELSE d) \o Pairs(s, r))

\* code128, minimize symbol width: the start code and the values
Values128(s) ==
    IF Len(s) = 2 /\ AllDigits(s) THEN <<c128.startc>> \o Pairs(s, 1)
    ELSE IF DigitRun(s) >= 4 THEN code128c(c128.startc, s, <<>>)
    ELSE IF Search(s, 0) >= 0 /\ CharCodeAt(s[Search(s, 0) + 1]) < 32
    THEN code128a(c128.starta, s, <<>>)
    ELSE code128b(c128.startb, s, <<>>)

\* the check symbol without the weights of the places
Check128Plain(d) ==
    SumSeq(d) % 103

\* d.reduce((a, c, i) => a + c * i) % 103
Check128(d) ==
    (d[1] + SumSeq([i \in 1..(Len(d) - 1) |-> d[i + 1] * i])) % 103

\* c128.element[c], undefined beyond the table
Element128(c) ==
    IF c \in 0..106 THEN C128Element[c + 1] ELSE Undefined

\* s.replace(/[\x00- \x7f]/g, ' ')
Text128(s) ==
    [k \in 1..Len(s) |->
        IF CharCodeAt(s[k]) <= 32 \/ CharCodeAt(s[k]) = 127 THEN " " ELSE s[k]]

\* code128: the check symbol and the stop symbol, the bars and spaces
Encode128(s, d, symbol) ==
    IF RangeError \in {d[k] : k \in 1..Len(d)} THEN Thrown
    ELSE LET q == IF symbol.quietZone THEN 10 ELSE 0
             all == d \o <<Check128(d), c128.stop>>
         IN [made |-> TRUE, raised |-> FALSE, hri |-> symbol.hri,
             text |-> Text128(s),
             widths |-> Scale(<<q>> \o Flatten([k \in 1..Len(all) |->
                                                  Element128(all[k])]) \o <<q>>,
                              symbol.width),
             length |-> symbol.width
                        * (Len(all) * 11 + (IF symbol.quietZone THEN 22 ELSE 2)),
             height |-> symbol.height]

\* generate CODE128 data (minimize symbol width)
code128(symbol) ==
    LET s == Strip(symbol.data, symbol.data # <<>> /\ AllAscii(symbol.data))
    IN IF Len(s) > 0 THEN Encode128(s, Values128(s), symbol) ELSE NoResult

\* c39: the bars and spaces of the characters of the model's payloads
C39 ==
    "0" :> <<2, 2, 2, 5, 5, 2, 5, 2, 2>> @@ "1" :> <<5, 2, 2, 5, 2, 2, 2, 2, 5>> @@
    "2" :> <<2, 2, 5, 5, 2, 2, 2, 2, 5>> @@ "3" :> <<5, 2, 5, 5, 2, 2, 2, 2, 2>> @@
    "4" :> <<2, 2, 2, 5, 5, 2, 2, 2, 5>> @@ "5" :> <<5, 2, 2, 5, 5, 2, 2, 2, 2>> @@
    "6" :> <<2, 2, 5, 5, 5, 2, 2, 2, 2>> @@ "7" :> <<2, 2, 2, 5, 2, 2, 5, 2, 5>> @@
    "8" :> <<5, 2, 2, 5, 2, 2, 5, 2, 2>> @@ "9" :> <<2, 2, 5, 5, 2, 2, 5, 2, 2>> @@
    "A" :> <<5, 2, 2, 2, 2, 5, 2, 2, 5>> @@ "B" :> <<2, 2, 5, 2, 2, 5, 2, 2, 5>> @@
    "-" :> <<2, 5, 2, 2, 2, 2, 5, 2, 5>> @@ " " :> <<2, 5, 5, 2, 2, 2, 5, 2, 2>> @@
    "*" :> <<2, 5, 2, 2, 5, 2, 5, 2, 2>>

\* nw7: the bars and spaces of the characters of the model's payloads
Nw7 ==
    "0" :> <<2, 2, 2, 2, 2, 5, 5>> @@ "1" :> <<2, 2, 2, 2, 5, 5, 2>> @@
    "2" :> <<2, 2, 2, 5, 2, 2, 5>> @@ "3" :> <<5, 5, 2, 2, 2, 2, 2>> @@
    "4" :> <<2, 2, 5, 2, 2, 5, 2>> @@ "5" :> <<5, 2, 2, 2, 2, 5, 2>> @@
    "6" :> <<2, 5, 2, 2, 2, 2, 5>> @@ "7" :> <<2, 5, 2, 2, 5, 2, 2>> @@
    "8" :> <<2, 5, 5, 2, 2, 2, 2>> @@ "9" :> <<5, 2, 2, 5, 2, 2, 2>> @@
    "-" :> <<2, 2, 2, 5, 5, 2, 2>> @@ "A" :> <<2, 2, 5, 5, 2, 5, 2>> @@
    "B" :> <<2, 5, 2, 5, 2, 2, 5>>

\* c93.escape: the escape of the characters of the model's payloads
C93Escape ==
    "0" :> <<"0">> @@ "1" :> <<"1">> @@ "2" :> <<"2">> @@ "3" :> <<"3">> @@
    "4" :> <<"4">> @@ "5" :> <<"5">> @@ "6" :> <<"6">> @@ "7" :> <<"7">> @@
    "8" :> <<"8">> @@ "9" :> <<"9">> @@ "A" :> <<"A">> @@ "B" :> <<"B">> @@
    "a" :> <<"p", "A">> @@ "b" :> <<"p", "B">> @@ "\n" :> <<"d", "J">> @@
    "\t" :> <<"d", "I">> @@ " " :> <<" ">> @@ "*" :> <<"s", "J">> @@ "-" :> <<"-">>

\* c93.code: the values of the characters those escapes are written by
C93Code ==
    "0" :> 0 @@ "1" :> 1 @@ "2" :> 2 @@ "3" :> 3 @@ "4" :> 4 @@ "5" :> 5 @@ "6" :> 6 @@
    "7" :> 7 @@ "8" :> 8 @@ "9" :> 9 @@ "A" :> 10 @@ "B" :> 11 @@ "I" :> 18 @@
    "J" :> 19 @@ "-" :> 36 @@ " " :> 38 @@ "d" :> 43 @@ "s" :> 45 @@ "p" :> 46

\* c93.element: the bars and spaces of the values 0..48
C93Element ==
    <<<<1, 3, 1, 1, 1, 2>>, <<1, 1, 1, 2, 1, 3>>, <<1, 1, 1, 3, 1, 2>>, <<1, 1, 1, 4, 1, 1>>,
      <<1, 2, 1, 1, 1, 3>>, <<1, 2, 1, 2, 1, 2>>, <<1, 2, 1, 3, 1, 1>>, <<1, 1, 1, 1, 1, 4>>,
      <<1, 3, 1, 2, 1, 1>>, <<1, 4, 1, 1, 1, 1>>, <<2, 1, 1, 1, 1, 3>>, <<2, 1, 1, 2, 1, 2>>,
      <<2, 1, 1, 3, 1, 1>>, <<2, 2, 1, 1, 1, 2>>, <<2, 2, 1, 2, 1, 1>>, <<2, 3, 1, 1, 1, 1>>,
      <<1, 1, 2, 1, 1, 3>>, <<1, 1, 2, 2, 1, 2>>, <<1, 1, 2, 3, 1, 1>>, <<1, 2, 2, 1, 1, 2>>,
      <<1, 3, 2, 1, 1, 1>>, <<1, 1, 1, 1, 2, 3>>, <<1, 1, 1, 2, 2, 2>>, <<1, 1, 1, 3, 2, 1>>,
      <<1, 2, 1, 1, 2, 2>>, <<1, 3, 1, 1, 2, 1>>, <<2, 1, 2, 1, 1, 2>>, <<2, 1, 2, 2, 1, 1>>,
      <<2, 1, 1, 1, 2, 2>>, <<2, 1, 1, 2, 2, 1>>, <<2, 2, 1, 1, 2, 1>>, <<2, 2, 2, 1, 1, 1>>,
      <<1, 1, 2, 1, 2, 2>>, <<1, 1, 2, 2, 2, 1>>, <<1, 2, 2, 1, 2, 1>>, <<1, 2, 3, 1, 1, 1>>,
      <<1, 2, 1, 1, 3, 1>>, <<3, 1, 1, 1, 1, 2>>, <<3, 1, 1, 2, 1, 1>>, <<3, 2, 1, 1, 1, 1>>,
      <<1, 1, 2, 1, 3, 1>>, <<1, 1, 3, 1, 2, 1>>, <<2, 1, 1, 1, 3, 1>>, <<1, 2, 1, 2, 2, 1>>,
      <<3, 1, 2, 1, 1, 1>>, <<3, 1, 1, 1, 2, 1>>, <<1, 2, 2, 2, 1, 1>>, <<1, 1, 1, 1, 4, 1>>,
      <<1, 1, 1, 1, 4, 1, 1>>>>

\* i25.element: the bars or the spaces of a digit
I25Element ==
    <<<<2, 2, 5, 5, 2>>, <<5, 2, 2, 2, 5>>, <<2, 5, 2, 2, 5>>, <<5, 5, 2, 2, 2>>,
      <<2, 2, 5, 2, 5>>, <<5, 2, 5, 2, 2>>, <<2, 5, 5, 2, 2>>, <<2, 2, 2, 5, 5>>,
      <<5, 2, 2, 5, 2>>, <<2, 5, 2, 5, 2>>>>

\* m.split('').map(c => parseInt(c, 16) * symbol.width + 1 >> 1): NaN >> 1
\* is 0
ScaleHalf(m, width) ==
    [k \in 1..Len(m) |-> IF m[k] = NaN THEN 0 ELSE (m[k] * width + 1) \div 2]

\* s.split('').reduce((a, c) => a + table[c] + '2', q).slice(0, -1) + q:
\* the characters by their bars and spaces, a narrow space between them
Spaced(s, table, q) ==
    <<q>> \o Flatten([k \in 1..Len(s) |->
                        (IF s[k] \in DOMAIN table THEN table[s[k]] ELSE Undefined)
                        \o (IF k < Len(s) THEN <<2>> ELSE <<>>)])
    \o <<q>>

\* /^\*?[0-9A-Z\-. $/+%]+\*?$/
Valid39(data) ==
    LET body == SubSeq(data, IF data # <<>> /\ Head(data) = "*" THEN 2 ELSE 1,
                       IF Len(data) >= 2 /\ data[Len(data)] = "*"
                       THEN Len(data) - 1 ELSE Len(data))
    IN body # <<>> /\ \A k \in 1..Len(body) : body[k] \in DOMAIN C39 \ {"*"}

\* s.replace(/^\*?([^*]+)\*?$/, '*$1*'): append start character and stop
\* character
Starred(s) ==
    LET body == SubSeq(s, IF Head(s) = "*" THEN 2 ELSE 1,
                       IF Len(s) >= 2 /\ s[Len(s)] = "*" THEN Len(s) - 1 ELSE Len(s))
    IN IF body # <<>> /\ \A k \in 1..Len(body) : body[k] # "*"
       THEN <<"*">> \o body \o <<"*">> ELSE s

Encode39(s, symbol) ==
    [made |-> TRUE, raised |-> FALSE, hri |-> symbol.hri, text |-> s,
     widths |-> ScaleHalf(Spaced(s, C39, IF symbol.quietZone THEN 10 ELSE 0),
                          symbol.width),
     length |-> Len(s) * <<29, 45, 58>>[symbol.width - 1]
                + symbol.width * (IF symbol.quietZone THEN 19 ELSE -1),
     height |-> symbol.height]

\* generate CODE39 data
code39(symbol) ==
    LET s == Strip(symbol.data, Valid39(symbol.data))
    IN IF Len(s) > 0 THEN Encode39(Starred(s), symbol) ELSE NoResult

\* String.prototype.toUpperCase on the characters of the model's payloads
ToUpperCase(c) ==
    CASE c = "a" -> "A" [] c = "b" -> "B" [] OTHER -> c

\* /^[A-D][0-9\-$:/.+]+[A-D]$/i
ValidCodabar(data) ==
    /\ Len(data) >= 3
    /\ ToUpperCase(data[1]) \in {"A", "B"}
    /\ ToUpperCase(data[Len(data)]) \in {"A", "B"}
    /\ \A k \in 2..(Len(data) - 1) : data[k] \in Digits \cup {"-"}

EncodeCodabar(s, symbol) ==
    [made |-> TRUE, raised |-> FALSE, hri |-> symbol.hri, text |-> s,
     widths |-> ScaleHalf(Spaced([k \in 1..Len(s) |-> ToUpperCase(s[k])], Nw7,
                                 IF symbol.quietZone THEN 10 ELSE 0),
                          symbol.width),
     length |-> Len(s) * <<25, 39, 50, 3, 5, 6>>[symbol.width - 1]
                - Cardinality({k \in 1..Len(s) : s[k] \in Digits \cup {"-"}})
                  * <<25, 39, 50, 3, 5, 6>>[symbol.width + 2]
                + symbol.width * (IF symbol.quietZone THEN 19 ELSE -1),
     height |-> symbol.height]

\* generate Codabar(NW-7) data
codabar(symbol) ==
    LET s == Strip(symbol.data, ValidCodabar(symbol.data))
    IN IF Len(s) > 0 THEN EncodeCodabar(s, symbol) ELSE NoResult

\* itf: the bars of one digit and the spaces of the next, interleaved
Interleaved(b, s) ==
    Flatten([j \in 1..5 |-> <<I25Element[b + 1][j], I25Element[s + 1][j]>>])

\* itf, if (s.length > 0): i25.element[d] is undefined for a d that is no
\* digit or is absent, and reading its characters raises
EncodeItf(s, d, symbol) ==
    IF Len(d) % 2 = 1 \/ \E k \in 1..Len(d) : d[k] \notin 0..9 THEN Thrown
    ELSE [made |-> TRUE, raised |-> FALSE, hri |-> symbol.hri, text |-> s,
          widths |-> ScaleHalf(<<IF symbol.quietZone THEN 10 ELSE 0, 2, 2, 2, 2>>
                               \o Flatten([k \in 1..(Len(d) \div 2) |->
                                             Interleaved(d[2 * k - 1], d[2 * k])])
                               \o <<5, 2, 2, IF symbol.quietZone THEN 10 ELSE 0>>,
                               symbol.width),
          length |-> Len(s) * <<16, 25, 32, 17, 26, 34>>[symbol.width - 1]
                     + <<16, 25, 32, 17, 26, 34>>[symbol.width + 2]
                     + symbol.width * (IF symbol.quietZone THEN 20 ELSE 0),
          height |-> symbol.height]

\* generate Interleaved 2 of 5 data
itf(symbol) ==
    LET s == Strip(symbol.data, /\ symbol.data # <<>>
                                /\ AllDigits(symbol.data)
                                /\ Len(symbol.data) % 2 = 0)
    IN IF Len(s) > 0 THEN EncodeItf(s, [k \in 1..Len(s) |-> Number(s[k])], symbol)
       ELSE NoResult

\* c93.code of the characters of c93.escape[c.charCodeAt(0)]; the escape
\* of a character beyond the table is undefined, and of the characters of
\* 'undefined' only d has a code
Values93(s) ==
    Flatten([k \in 1..Len(s) |->
               IF s[k] \in DOMAIN C93Escape
               THEN [j \in 1..Len(C93Escape[s[k]]) |-> C93Code[C93Escape[s[k]][j]]]
               ELSE <<Hole, Hole, 43, Hole, Hole, Hole, Hole, Hole, 43>>])

\* d.reduceRight((a, c, i) => a + c * ((d.length - 1 - i) % n + 1)) % 47
Check93(d, n) ==
    LET RECURSIVE Sum(_, _)
        Sum(i, a) == IF i < 0 THEN a
                     ELSE Sum(i - 1, Plus(a, Times(d[i + 1], ((Len(d) - 1 - i) % n) + 1)))
        sum == Sum(Len(d) - 2, IF d[Len(d)] = Hole THEN NaN ELSE d[Len(d)])
    IN IF sum = NaN THEN NaN ELSE sum % 47

Element93(c) ==
    IF c \in 0..48 THEN C93Element[c + 1] ELSE Undefined

Encode93(s, d, symbol) ==
    LET q == IF symbol.quietZone THEN 10 ELSE 0
    IN [made |-> TRUE, raised |-> FALSE, hri |-> symbol.hri, text |-> Text128(s),
        widths |-> Scale(<<q>> \o Flatten([k \in 1..Len(d) |-> Element93(d[k])])
                         \o <<q>>, symbol.width),
        length |-> symbol.width
                   * (Len(d) * 9 + (IF symbol.quietZone THEN 21 ELSE 1)),
        height |-> symbol.height]

\* code93: the check characters C and K, the start and stop characters
Framed93(d) ==
    <<47>> \o d \o <<Check93(d, 20), Check93(Append(d, Check93(d, 20)), 15), 48>>

\* generate CODE93 data
code93(symbol) ==
    LET s == Strip(symbol.data, symbol.data # <<>> /\ AllAscii(symbol.data))
    IN IF Len(s) > 0 THEN Encode93(s, Framed93(Values93(s)), symbol) ELSE NoResult

\* Generate barcode
generate(symbol) ==
    CASE symbol.type = "upc" ->
           IF Len(symbol.data) < 9 THEN upce(symbol) ELSE upca(symbol)
      [] symbol.type \in {"ean", "jan"} ->
           IF Len(symbol.data) < 9 THEN ean8(symbol) ELSE ean13(symbol)
      [] symbol.type = "code39" -> code39(symbol)
      [] symbol.type = "itf" -> itf(symbol)
      [] symbol.type \in {"codabar", "nw7"} -> codabar(symbol)
      [] symbol.type = "code93" -> code93(symbol)
      [] symbol.type = "code128" -> code128(symbol)
      [] OTHER -> NoResult

\* ------------------------------------------------------------- transform
VARIABLES
    pc,       \* where transform() is: "open", "lines", "done", "failed"
    printer,  \* the printer configuration
    state,    \* the state variables (ParseState)
    pre,      \* the state variables before the last line
    raw,      \* the last line given to parseLine (<<>> before the first)
    chars,    \* the characters of that line, where the line is given by them
    out,      \* the sink calls issued by the last step, in order
    nl,       \* the number of lines processed
    parsedLine, \* createLine: the columns parseLine made of that line
    layout,   \* createLine: the layout of that line (columns, f, g, n, v, area)
    vropen,   \* the number of vrstart calls not yet followed by a vrstop
    vrok      \* no vrstop was issued without, no vrstart within, an open rule

\* the target shared by concurrent transform() calls
VARIABLES
    locked,       \* BaseTarget.locked
    lockPromise,  \* BaseTarget.lockPromise: a promise (1, 2, ...) or null (0)
    lockResolve,  \* BaseTarget.lockResolve: the promise it resolves, or null (0)
    promises,     \* the number of promises lock() has created
    settled,      \* the promises that are resolved
    tpc,          \* where each transform() call is
    awaited,      \* the promise each call waits for in lock(), or 0
    unlocks       \* how many times each call has called unlock()

VARIABLES
    symbol,   \* generate(): the barcode information it is given
    bar       \* generate(): the results it has returned (none or one)

VARIABLES
    log,      \* the sink calls issued so far, each with the step that issued it
    flying,   \* the places in log of the calls that have not yet completed
    content   \* the results of the completed calls, in the order they are joined

VARIABLES
    wrapping,  \* wrapText(): the column and the encoding it is given
    wrapped    \* wrapText(): the rows it has returned (none or one result)

docvars ==
    <<pc, printer, state, pre, raw, chars, out, nl, parsedLine, layout, vropen,
      vrok>>

lockvars ==
    <<locked, lockPromise, lockResolve, promises, settled, tpc, awaited, unlocks>>

barvars ==
    <<symbol, bar>>

sinkvars ==
    <<log, flying, content>>

wrapvars ==
    <<wrapping, wrapped>>

vars ==
    <<pc, printer, state, pre, raw, chars, out, nl, parsedLine, layout, vropen, vrok,
      locked, lockPromise, lockResolve, promises, settled, tpc, awaited, unlocks,
      symbol, bar, log, flying, content, wrapping, wrapped>>

Calls ==
    1..NumCalls

\* the target before any call
InitLock ==
    /\ locked = FALSE
    /\ lockPromise = 0
    /\ lockResolve = 0
    /\ promises = 0
    /\ settled = {}
    /\ tpc = [p \in Calls |-> "idle"]
    /\ awaited = [p \in Calls |-> 0]
    /\ unlocks = [p \in Calls |-> 0]

\* no barcode is asked for
NoSymbol ==
    [type |-> "", data |-> <<>>, width |-> 2, height |-> 72, hri |-> FALSE,
     quietZone |-> FALSE]

InitNoBarcode ==
    /\ symbol = NoSymbol
    /\ bar = <<>>

\* no sink call is followed one by one
InitSink ==
    /\ log = <<>>
    /\ flying = <<>>
    /\ content = <<>>

\* no column is given to wrapText on its own
NoColumn ==
    [column |-> NewColumn(InitState), encoding |-> ""]

InitNoWrap ==
    /\ wrapping = NoColumn
    /\ wrapped = <<>>

\* no line, no layout: before the first line and after the last
NoLayout ==
    [raised |-> FALSE, text |-> FALSE, columns |-> <<>>, f |-> <<>>, g |-> <<>>,
     n |-> 0, v0 |-> 0, left |-> 0, width |-> 0, right |-> 0]

\* the rule calls of a sequence of sink calls, followed from vropen = open
RECURSIVE Follow(_, _, _)
Follow(calls, open, ok) ==
    IF calls = <<>> THEN [open |-> open, ok |-> ok]
    ELSE CASE Head(calls).op = "vrstart" ->
                Follow(Tail(calls), open + 1, ok /\ open = 0)
           [] Head(calls).op = "vrstop" ->
                Follow(Tail(calls), open - 1, ok /\ open = 1)
           [] OTHER -> Follow(Tail(calls), open, ok)

Init ==
    /\ pc = "open"
    /\ printer \in Printers
    /\ state = InitState
    /\ pre = InitState
    /\ raw = <<>>
    /\ chars = <<>>
    /\ out = <<>>
    /\ nl = 0
    /\ parsedLine = <<>>
    /\ layout = NoLayout
    /\ vropen = 0
    /\ vrok = TRUE
    /\ InitLock
    /\ InitNoBarcode
    /\ InitSink
    /\ InitNoWrap

\* transform: let result = await ptr.target.open(ptr)
Open ==
    /\ pc = "open"
    /\ pc' = "lines"
    /\ out' = <<Call("open", <<>>)>>
    /\ UNCHANGED <<printer, state, pre, raw, chars, nl, parsedLine, layout, vropen,
                   vrok>>
    /\ UNCHANGED <<lockvars, barvars, sinkvars, wrapvars>>

\* transform: the step of one line, with the commands made of it
LineMade(columns, made, rule) ==
    /\ raw' = columns
    /\ layout' = made.lay
    /\ pre' = state
    /\ state' = made.state
    /\ out' = made.out
    /\ pc' = IF made.raised THEN "failed" ELSE "lines"
    /\ vropen' = rule.open
    /\ vrok' = rule.ok

LineCreated(columns, made) ==
    LineMade(columns, made, Follow(made.out, vropen, vrok))

LineParsed(columns, parsed) ==
    /\ parsedLine' = parsed.line
    /\ LineCreated(columns, CreateLine(parsed.line, printer, parsed.state))

\* transform: res.push(await createLine(parseLine(line, state), ptr, state))
\* for the next line of the document; an exception leaves the loop
Line ==
    /\ pc = "lines"
    /\ nl < MaxLines
    /\ \E columns \in Lines : LineParsed(columns, ParseLine(columns, state))
    /\ nl' = nl + 1
    /\ UNCHANGED <<printer, chars>>
    /\ UNCHANGED <<lockvars, barvars, sinkvars, wrapvars>>

\* transform: after the last line, the rules that are not finished are
\* stopped or cancelled, then close()
End ==
    /\ pc = "lines"
    /\ nl >= 1
    /\ LET stop == IF state.line \in {"running", "horizontal"}
                   THEN StopRules(state.rules) ELSE <<>>
           rule == Follow(stop, vropen, vrok)
       IN /\ out' = stop \o <<Call("close", <<>>)>>
          /\ vropen' = rule.open
          /\ vrok' = rule.ok
    /\ pre' = state
    /\ state' = [state EXCEPT !.line = "waiting"]
    /\ raw' = <<>>
    /\ chars' = <<>>
    /\ parsedLine' = <<>>
    /\ layout' = NoLayout
    /\ pc' = "done"
    /\ UNCHANGED <<printer, nl>>
    /\ UNCHANGED <<lockvars, barvars, sinkvars, wrapvars>>

Next ==
    \/ Open
    \/ Line
    \/ End

Spec ==
    Init /\ [][Next]_vars

\* ------------------------------------------- documents given by characters
\* the nine forms of a column between pipes (README, Alignment)
AlignmentForms ==
    {<<"|", "c", "o", "l", " ", "|">>, <<"|", "c", "o", "l">>, <<"c", "o", "l", " ", "|">>,
     <<"|", " ", "c", "o", "l", "|">>, <<"c", "o", "l", "|">>, <<"|", " ", "c", "o", "l">>,
     <<"c", "o", "l">>, <<"|", "c", "o", "l", "|">>, <<"|", " ", "c", "o", "l", " ", "|">>}

\* the escape sequences of text (README, Escape sequences in text), and
\* hexadecimal escapes of a letter, of a control code and of DEL
Escapes ==
    {<<"\\", c>> : c \in {"\\", "|", "{", "}", "-", "=", "~", "_", "\"", "BQ", "^", "n"}}
    \cup {<<"\\", "x", "4", "1">>, <<"\\", "x", "7", "E">>, <<"\\", "x", "5", "f">>,
          <<"\\", "x", "1", "b">>, <<"\\", "x", "7", "f">>}

\* a text column that holds one escape sequence between two letters
EscapeLines ==
    {<<"a">> \o e \o <<"b">> : e \in Escapes}

\* lines of several columns, markers, decorations and property blocks
OtherLines ==
    {<<"A", "|", "B">>, <<"-", "-">>, <<"=">>,
     <<"a", "b", "c", "d", "e", "f", "g", " ", "|", "x", "y">>,
     <<"|", " ", "a", "b", " ", "|", "c", "d", "e", "f", "g", "h", "|">>,
     <<"a", "_", "b", "^", "^", "c", "~", "d">>,
     <<"{", "w", ":", " ", "1", " ", "1", "}">>,
     <<"{", "w", ":", "a", "u", "t", "o", "}">>,
     <<"{", "b", ":", "l", "i", "n", "e", "}">>,
     <<"{", "b", ":", "s", "p", "a", "c", "e", ";", " ", "}">>,
     <<"a", "{", "b">>}

\* two columns with or without a pipe before and after and a space on
\* either side of each
TwoColumnForms ==
    {lp \o s1 \o <<"a">> \o s2 \o <<"|">> \o s3 \o <<"b">> \o s4 \o tp :
        lp \in {<<>>, <<"|">>}, s1 \in {<<>>, <<" ">>}, s2 \in {<<>>, <<" ">>},
        s3 \in {<<>>, <<" ">>}, s4 \in {<<>>, <<" ">>}, tp \in {<<>>, <<"|">>}}

CharLines ==
    AlignmentForms \cup TwoColumnForms \cup EscapeLines \cup OtherLines

\* transform() on a document given by its characters, at cpl MaxCpl and
\* at twice that
InitChars ==
    /\ pc = "open"
    /\ printer \in {[cpl |-> c, encoding |-> "cp437"] : c \in {MaxCpl, 2 * MaxCpl}}
    /\ state = InitState
    /\ pre = InitState
    /\ raw = <<>>
    /\ chars = <<>>
    /\ out = <<>>
    /\ nl = 0
    /\ parsedLine = <<>>
    /\ layout = NoLayout
    /\ vropen = 0
    /\ vrok = TRUE
    /\ InitLock
    /\ InitNoBarcode
    /\ InitSink
    /\ InitNoWrap

\* transform: one line of the document, from its characters
LineChars ==
    /\ pc = "lines"
    /\ nl < MaxCharLines
    /\ \E line \in CharLines :
          /\ chars' = line
          /\ LineParsed(SplitLine(line), ParseLine(SplitLine(line), state))
    /\ nl' = nl + 1
    /\ UNCHANGED printer
    /\ UNCHANGED <<lockvars, barvars, sinkvars, wrapvars>>

NextChars ==
    \/ Open
    \/ LineChars
    \/ End

SpecChars ==
    InitChars /\ [][NextChars]_vars

\* ------------------------------------------------------- barcode payloads
\* generate() on one symbol.  The payload of a code property is the value
\* of the property, in which \n stands for a line feed (MemberValue); the
\* type, width, height and hri are those of the option property, and the
\* target sets quietZone.
DigitsOf(d) ==
    [k \in 1..Len(d) |-> DigitChars[d[k] + 1]]

\* the digits that vary in the payloads of digits
FirstDigits ==
    0..9

SecondDigits ==
    {0, 3, 4, 7}

\* a payload without its check digit, and with every digit in its place
WithCheck(base) ==
    {base} \cup {Append(base, DigitChars[c + 1]) : c \in 0..9}

Ean13Payloads ==
    UNION {WithCheck(DigitsOf(<<4, 9, 0, 1, 2, 3, 4, 5, 6, 7, x, y>>)) :
             x \in FirstDigits, y \in SecondDigits}

UpcAPayloads ==
    UNION {WithCheck(DigitsOf(<<0, 1, 2, 3, 4, 5, 6, 7, 8, x, y>>)) :
             x \in FirstDigits, y \in SecondDigits}

Ean8Payloads ==
    UNION {WithCheck(DigitsOf(<<4, 9, 0, 1, 2, x, y>>)) :
             x \in FirstDigits, y \in SecondDigits}

UpcEPayloads ==
    UNION {WithCheck(DigitsOf(<<0, 1, 2, 3, 4, x, y>>)) :
             x \in FirstDigits, y \in SecondDigits}

\* the characters of the short payloads: digits, an upper case and a
\* lower case letter, a control character, a line feed and a character
\* beyond 0x7f
PayloadChars ==
    {"1", "2", "A", "a", "\t", "\n", "é"}

ShortPayloads ==
    UNION {[1..n -> PayloadChars] : n \in 0..MaxPayload}

OtherPayloads ==
    {<<"1", "2", "3", "4", "5", "6", "7">>,
     <<"1", "2", "3", "4">>, <<"1", "2", "3", "4", "5">>,
     <<"1", "2", "3", "4", "5", "6">>,
     <<"1", "2", "3", "4", "5", "6", "7", "8", "9">>,
     <<"1", "2", "3", "4", "5", "6", "7", "8", "9", "0", "1", "2", "3", "4">>,
     <<"4", "9", "0", "1", "2", "3", "4", "5", "6", "7", "8", "A">>,
     <<"1", "2", "3", "4", "5", "6", "7", "\n">>,
     <<"A", "1", "2", "B">>, <<"a", "1", "-", "2", "b">>, <<"A", "B">>,
     <<"A", "1", "2">>, <<"*", "A", "1", "*">>, <<"A", "-", "1">>,
     <<"A", "*", "1">>, <<"*">>, <<"a", " ", "b">>, <<"A", "B", "1", "2", "3", "4">>}

Types ==
    {"upc", "ean", "jan", "code39", "itf", "codabar", "nw7", "code93", "code128"}

\* the payloads of digits go to the symbologies of digits, the others to
\* every symbology; the payloads of digits are drawn with HRI, the short
\* payloads without
Symbols ==
    {[type |-> t, data |-> d, width |-> w, height |-> 72, hri |-> TRUE,
      quietZone |-> q] :
        t \in {"upc", "ean"},
        d \in Ean13Payloads \cup UpcAPayloads \cup Ean8Payloads \cup UpcEPayloads,
        w \in {2, 3}, q \in BOOLEAN}
    \cup
    {[type |-> t, data |-> d, width |-> w, height |-> 72, hri |-> h,
      quietZone |-> q] :
        t \in Types, d \in OtherPayloads,
        w \in {2, 3}, h \in BOOLEAN, q \in BOOLEAN}
    \cup
    {[type |-> t, data |-> d, width |-> w, height |-> 72, hri |-> FALSE,
      quietZone |-> q] :
        t \in Types, d \in ShortPayloads, w \in {2, 3}, q \in BOOLEAN}

InitBarcode ==
    /\ pc = "open"
    /\ printer = [cpl |-> MaxCpl, encoding |-> "cp437"]
    /\ state = InitState
    /\ pre = InitState
    /\ raw = <<>>
    /\ chars = <<>>
    /\ out = <<>>
    /\ nl = 0
    /\ parsedLine = <<>>
    /\ layout = NoLayout
    /\ vropen = 0
    /\ vrok = TRUE
    /\ InitLock
    /\ symbol \in Symbols
    /\ bar = <<>>
    /\ InitSink
    /\ InitNoWrap

\* the target's barcode(): generate(symbol)
Generate ==
    /\ bar = <<>>
    /\ bar' = <<generate(symbol)>>
    /\ UNCHANGED <<docvars, lockvars, sinkvars, wrapvars, symbol>>

SpecBarcode ==
    InitBarcode /\ [][Generate]_vars

\* ------------------------------------------------------ sink calls, one by one
\* A step of transform() (open, a line, the end) makes the sink calls out;
\* each is issued, and completes when the sink resolves its promise.
\* the step transform() is in: 0 for open, k for line k, one more at the end
Step ==
    IF pc = "done" THEN nl + 1 ELSE nl

\* the number of calls of out that have been issued
Issued ==
    Cardinality({k \in 1..Len(log) : log[k].step = Step})

\* nothing is awaited
Unawaited ==
    TRUE

\* await: the call issued before has completed
Awaited ==
    flying = <<>>

\* every call of the step has been issued and has completed
AllDone ==
    Issued = Len(out) /\ flying = <<>>

\* await printer.target.f(...): the next call of the step is issued
Issue ==
    /\ Issued < Len(out)
    /\ Awaited
    /\ log' = Append(log, [step |-> Step, call |-> out[Issued + 1]])
    /\ flying' = Append(flying, Len(log) + 1)
    /\ UNCHANGED <<docvars, lockvars, barvars, wrapvars, content>>

\* the sink resolves the promise of a call: its result is appended
Complete ==
    /\ \E i \in 1..Len(flying) :
          /\ content' = Append(content, log[flying[i]])
          /\ flying' = SubSeq(flying, 1, i - 1) \o SubSeq(flying, i + 1, Len(flying))
    /\ UNCHANGED <<docvars, lockvars, barvars, wrapvars, log>>

\* the lines of the documents: two columns, a divider, a cut, underlined
\* text, a line that is in error, a width list, a border
SinkLines ==
    {<<"a", "|", "b">>, <<"-">>, <<"=">>, <<"_", "a">>, <<"a", "|", "b", "|", "{">>,
     <<"{", "w", ":", " ", "1", " ", "1", "}">>,
     <<"{", "b", ":", "l", "i", "n", "e", "}">>}

InitSinkCalls ==
    /\ pc = "open"
    /\ printer \in {[cpl |-> c, encoding |-> "cp437"] : c \in {2, 2 * MaxCpl}}
    /\ state = InitState
    /\ pre = InitState
    /\ raw = <<>>
    /\ chars = <<>>
    /\ out = <<>>
    /\ nl = 0
    /\ parsedLine = <<>>
    /\ layout = NoLayout
    /\ vropen = 0
    /\ vrok = TRUE
    /\ InitLock
    /\ InitNoBarcode
    /\ log = <<>>
    /\ flying = <<>>
    /\ content = <<>>
    /\ InitNoWrap

\* transform: let result = await ptr.target.open(ptr)
SinkOpen ==
    AllDone /\ Open

\* transform: res.push(await createLine(parseLine(line, state), ptr, state))
SinkLine ==
    /\ AllDone
    /\ pc = "lines"
    /\ nl < MaxSinkLines
    /\ \E line \in SinkLines :
          /\ chars' = line
          /\ LineParsed(SplitLine(line), ParseLine(SplitLine(line), state))
    /\ nl' = nl + 1
    /\ UNCHANGED printer
    /\ UNCHANGED <<lockvars, barvars, sinkvars, wrapvars>>

\* transform: the rules are stopped, result += await ptr.target.close()
SinkEnd ==
    AllDone /\ End

NextSink ==
    \/ SinkOpen
    \/ SinkLine
    \/ SinkEnd
    \/ Issue
    \/ Complete

SpecSink ==
    InitSinkCalls /\ [][NextSink]_vars

\* ------------------------------------------------ the lock of the target
\* BaseTarget.lock, the lock is taken: this.locked = true and a new
\* lockPromise whose resolve function is kept in lockResolve
Acquire(p) ==
    /\ locked' = TRUE
    /\ promises' = promises + 1
    /\ lockPromise' = promises + 1
    /\ lockResolve' = promises + 1
    /\ tpc' = [tpc EXCEPT ![p] = "acquired"]
    /\ awaited' = [awaited EXCEPT ![p] = 0]
    /\ UNCHANGED <<settled, unlocks>>

\* BaseTarget.unlock, called by p
Unlock(p) ==
    /\ unlocks' = [unlocks EXCEPT ![p] = @ + 1]
    /\ IF locked /\ lockResolve # 0
       THEN /\ locked' = FALSE
            /\ settled' = settled \cup {lockResolve}
            /\ lockResolve' = 0
            /\ lockPromise' = 0
       ELSE UNCHANGED <<locked, settled, lockResolve, lockPromise>>

\* transform: await ptr.target.lock(), up to the first await of lock():
\* a free target is locked at once, on a busy one the call waits for the
\* lockPromise of the moment, raced against the timeout
CallLock(p) ==
    /\ tpc[p] = "idle"
    /\ IF ~locked
       THEN Acquire(p)
       ELSE /\ tpc' = [tpc EXCEPT ![p] = "waiting"]
            /\ awaited' = [awaited EXCEPT ![p] = lockPromise]
            /\ UNCHANGED <<locked, lockPromise, lockResolve, promises, settled,
                           unlocks>>
    /\ UNCHANGED <<docvars, barvars, sinkvars, wrapvars>>

\* BaseTarget.lock, after the race: the awaited promise is resolved, the
\* waiter goes on and takes the lock ("Now acquire the lock")
Wake(p) ==
    /\ tpc[p] = "waiting"
    /\ awaited[p] \in settled
    /\ Acquire(p)
    /\ UNCHANGED <<docvars, barvars, sinkvars, wrapvars>>

\* the timeout fires and the call unlocks the target on its way out
TimeoutUnlocking(p) ==
    /\ tpc[p] = "waiting"
    /\ awaited[p] \notin settled
    /\ tpc' = [tpc EXCEPT ![p] = "timedout"]
    /\ awaited' = [awaited EXCEPT ![p] = 0]
    /\ Unlock(p)
    /\ UNCHANGED promises
    /\ UNCHANGED <<docvars, barvars, sinkvars, wrapvars>>

\* BaseTarget.lock, after the race: the timeout fires first, lock()
\* rejects and transform() raises before its try block
Timeout(p) ==
    /\ tpc[p] = "waiting"
    /\ awaited[p] \notin settled
    /\ tpc' = [tpc EXCEPT ![p] = "timedout"]
    /\ awaited' = [awaited EXCEPT ![p] = 0]
    /\ UNCHANGED <<locked, lockPromise, lockResolve, promises, settled, unlocks>>
    /\ UNCHANGED <<docvars, barvars, sinkvars, wrapvars>>

\* transform: lock() has returned; the try block is entered and open()
\* is called
CallOpen(p) ==
    /\ tpc[p] = "acquired"
    /\ tpc' = [tpc EXCEPT ![p] = "open"]
    /\ UNCHANGED <<locked, lockPromise, lockResolve, promises, settled, awaited,
                   unlocks>>
    /\ UNCHANGED <<docvars, barvars, sinkvars, wrapvars>>

\* transform: open() has returned; the lines are processed, each sink
\* call awaited
CallLines(p) ==
    /\ tpc[p] = "open"
    /\ tpc' = [tpc EXCEPT ![p] = "lines"]
    /\ UNCHANGED <<locked, lockPromise, lockResolve, promises, settled, awaited,
                   unlocks>>
    /\ UNCHANGED <<docvars, barvars, sinkvars, wrapvars>>

\* transform: the lines are done and close() is called
CallClose(p) ==
    /\ tpc[p] = "lines"
    /\ tpc' = [tpc EXCEPT ![p] = "close"]
    /\ UNCHANGED <<locked, lockPromise, lockResolve, promises, settled, awaited,
                   unlocks>>
    /\ UNCHANGED <<docvars, barvars, sinkvars, wrapvars>>

\* transform: close() has returned, the result is returned through the
\* finally block, which unlocks the target
Return(p) ==
    /\ tpc[p] = "close"
    /\ tpc' = [tpc EXCEPT ![p] = "done"]
    /\ Unlock(p)
    /\ UNCHANGED <<promises, awaited>>
    /\ UNCHANGED <<docvars, barvars, sinkvars, wrapvars>>

\* a line raises and the exception leaves without unlocking the target
RaiseLocked(p) ==
    /\ tpc[p] = "lines"
    /\ tpc' = [tpc EXCEPT ![p] = "failed"]
    /\ UNCHANGED <<locked, lockPromise, lockResolve, promises, settled, awaited,
                   unlocks>>
    /\ UNCHANGED <<docvars, barvars, sinkvars, wrapvars>>

\* transform: a line raises; the exception leaves through the finally
\* block, which unlocks the target
Raise(p) ==
    /\ tpc[p] = "lines"
    /\ tpc' = [tpc EXCEPT ![p] = "failed"]
    /\ Unlock(p)
    /\ UNCHANGED <<promises, awaited>>
    /\ UNCHANGED <<docvars, barvars, sinkvars, wrapvars>>

InitCalls ==
    /\ pc = "open"
    /\ printer \in {[cpl |-> 48, encoding |-> "cp437"]}
    /\ state = InitState
    /\ pre = InitState
    /\ raw = <<>>
    /\ chars = <<>>
    /\ out = <<>>
    /\ nl = 0
    /\ parsedLine = <<>>
    /\ layout = NoLayout
    /\ vropen = 0
    /\ vrok = TRUE
    /\ InitLock
    /\ InitNoBarcode
    /\ InitSink
    /\ InitNoWrap

NextCalls ==
    \E p \in Calls :
        \/ CallLock(p)
        \/ Wake(p)
        \/ Timeout(p)
        \/ CallOpen(p)
        \/ CallLines(p)
        \/ CallClose(p)
        \/ Return(p)
        \/ Raise(p)

\* concurrent transform() calls on one target
SpecLock ==
    InitCalls /\ [][NextCalls]_vars

\* the calls that are between their successful lock() and their unlock()
Holders ==
    {p \in Calls : tpc[p] \in {"acquired", "open", "lines", "close"}}

\* the calls that have a sink call under way or issued
InSink ==
    {p \in Calls : tpc[p] \in {"open", "lines", "close"}}

\* ------------------------------------------- the layout of one text line
\* the width lists a width property can set: '*' (-1), 0 and numbers
RECURSIVE WidthLists(_)
WidthLists(k) ==
    IF k = 0 THEN {<<>>}
    ELSE WidthLists(k - 1)
         \cup {Append(w, c) : w \in {v \in WidthLists(k - 1) : Len(v) = k - 1},
                               c \in {-1, 0, 2, 5}}

\* a line of k text columns, a | a | ... | a
TextColumns(k) ==
    Array([i \in 1..k |-> RawText(FALSE, FALSE, << <<"a">> >>)])

\* a text line about to be laid out, under any border and width list
\* that property lines can have set before it
InitLayout ==
    /\ pc = "line"
    /\ printer \in {[cpl |-> c, encoding |-> "cp437"] : c \in 1..MaxArea}
    /\ state \in {[InitState EXCEPT !.border = b, !.width = w] :
                     b \in {-1, 0, 1, 2}, w \in WidthLists(MaxColumns)}
    /\ pre = state
    /\ raw \in {TextColumns(k) : k \in 1..MaxColumns}
    /\ chars = <<>>
    /\ out = <<>>
    /\ nl = 0
    /\ parsedLine = <<>>
    /\ layout = NoLayout
    /\ vropen = 0
    /\ vrok = TRUE
    /\ InitLock
    /\ InitNoBarcode
    /\ InitSink
    /\ InitNoWrap

\* parseLine, then createLine up to the print area
LayOut ==
    /\ pc = "line"
    /\ pc' = "laid"
    /\ parsedLine' = ParseLine(raw, state).line
    /\ layout' = Layout(ParseLine(raw, state).line, printer.cpl)
    /\ UNCHANGED <<printer, state, pre, raw, chars, out, nl, vropen, vrok>>
    /\ UNCHANGED <<lockvars, barvars, sinkvars, wrapvars>>

SpecLayout ==
    InitLayout /\ [][LayOut]_vars

\* -------------------------------------------------- columns to be wrapped
\* the literal runs and the decorations of the texts given to wrapText:
\* "W" is two cells wide in a double-byte encoding
Runs ==
    {<<>>, <<"a", "W", "b">>}

Decorations ==
    {"\n", "_", "\"", "BQ", "^", "^^", "^^^", "^^^^^^^", "^^^^^^^^"}

\* the segment streams of parseLine's split: runs at the even places
\* (0-based), decorations between them, at most k decorations
RECURSIVE Streams(_)
Streams(k) ==
    IF k = 0 THEN {<<r>> : r \in Runs}
    ELSE Streams(k - 1)
         \cup {s \o <<d, r>> : s \in {x \in Streams(k - 1) : Len(x) = 2 * k - 1},
                               d \in Decorations, r \in Runs}

\* a text column of resolved width 1..MaxWidth about to be wrapped
InitWrap ==
    /\ pc = "open"
    /\ printer = [cpl |-> MaxCpl, encoding |-> "cp437"]
    /\ state = InitState
    /\ pre = InitState
    /\ raw = <<>>
    /\ chars = <<>>
    /\ out = <<>>
    /\ nl = 0
    /\ parsedLine = <<>>
    /\ layout = NoLayout
    /\ vropen = 0
    /\ vrok = TRUE
    /\ InitLock
    /\ InitNoBarcode
    /\ InitSink
    /\ wrapping \in {[column |-> [NewColumn(InitState) EXCEPT !.has = {"text"},
                                                             !.text = t,
                                                             !.width = w],
                      encoding |-> e] :
                        t \in Streams(MaxDecorations), w \in 1..MaxWidth,
                        e \in {"cp437", "cp932"}}
    /\ wrapped = <<>>

\* createLine: columns.map(column => wrapText(column, printer))
Wrap ==
    /\ wrapped = <<>>
    /\ wrapped' = <<WrapText(wrapping.column, wrapping.encoding)>>
    /\ UNCHANGED <<docvars, lockvars, barvars, sinkvars, wrapping>>

SpecWrap ==
    InitWrap /\ [][Wrap]_vars

\* ------------------------------------------------------------ properties
RuleOpen ==
    {"running", "horizontal"}

\* the line just processed is a text line, a paper cut, a horizontal rule
IsTextLine ==
    /\ parsedLine # <<>>
    /\ \A i \in 1..Len(parsedLine) : "text" \in parsedLine[i].has

IsCut ==
    /\ parsedLine # <<>>
    /\ "hr" \in parsedLine[1].has
    /\ parsedLine[1].hr = "="

IsHr ==
    /\ parsedLine # <<>>
    /\ "hr" \in parsedLine[1].has
    /\ parsedLine[1].hr = "-"

\* the line just processed is one property block that took the border
\* from non-negative to negative, or back
BorderDown ==
    Len(raw) = 1 /\ raw[1].kind = "block" /\ pre.border >= 0 /\ state.border < 0

BorderUp ==
    Len(raw) = 1 /\ raw[1].kind = "block" /\ pre.border < 0 /\ state.border >= 0

\* the places in out of the calls of a method
Places(op) ==
    {k \in 1..Len(out) : out[k].op = op}

\* C1: of the transform() calls that share one target, at most one at a
\* time is between its successful lock() and its unlock(), and no other
\* call has a sink call under way
MutualExclusion ==
    /\ Cardinality(Holders) <= 1
    /\ Cardinality(InSink) <= 1

\* C2: no line makes parseLine or createLine raise: a transform whose
\* sink calls do not fail never leaves the loop over the lines by an
\* exception
NoLineRaises ==
    pc # "failed"

\* the edges of the rule state that do not depend on the paper cut
CommonEdges ==
    \/ state.line = pre.line
    \/ state.line = "ready" /\ BorderDown
    \/ /\ pre.line \in {"ready"} \cup RuleOpen
       /\ state.line = "waiting"
       /\ BorderUp \/ pc = "done"
    \/ pre.line = "ready" /\ state.line = "running" /\ IsTextLine
    \/ pre.line = "running" /\ state.line = "horizontal" /\ IsHr
    \/ pre.line = "horizontal" /\ state.line = "running" /\ IsTextLine

\* C3 as stated: the rule state changes only along the edges of the
\* claim, where a paper cut takes running or horizontal to waiting
RuleEdgesCutToWaiting ==
    \/ CommonEdges
    \/ pre.line \in RuleOpen /\ state.line = "waiting" /\ IsCut

\* C3: the rule state changes only along these edges: to ready by a
\* border property going non-negative to negative; ready, running or
\* horizontal to waiting by a border property going negative to
\* non-negative or at document end; running or horizontal to ready by a
\* paper cut; ready to running and horizontal to running by a text line;
\* running to horizontal by a horizontal rule.  Every other line leaves
\* the rule state unchanged.
RuleEdges ==
    \/ CommonEdges
    \/ pre.line \in RuleOpen /\ state.line = "ready" /\ IsCut

CutRestartsRules ==
    IsCut /\ pre.line = "running" /\ state.line = "ready" /\ pc = "lines"

\* C4: vrstart and vrstop strictly alternate, beginning with vrstart;
\* rules are open exactly in the states running and horizontal; at
\* document end the open rules are stopped by exactly one vrstop before
\* close(), a document that ends in ready or waiting emits neither, and
\* the rule state is waiting afterwards
RulesAlternate ==
    /\ vrok
    /\ vropen \in {0, 1}
    /\ vropen = 1 <=> state.line \in RuleOpen
    /\ pc = "done" =>
         /\ vropen = 0
         /\ state.line = "waiting"
         /\ Places("vrstart") = {}
         /\ out[Len(out)].op = "close"
         /\ IF pre.line \in RuleOpen
            THEN /\ Cardinality(Places("vrstop")) = 1
                 /\ out[4] = Call("vrstop", <<pre.rules.widths>>)
            ELSE Places("vrstop") = {}

EndStopsRules ==
    pc = "done" /\ pre.line \in RuleOpen /\ Places("vrstop") # {}

\* the widths of the columns of the line just laid out
Widths ==
    Array([i \in 1..Len(layout.columns) |-> layout.columns[i].width])

\* C5: a horizontal rule line in state running emits nothing and sets
\* the state to horizontal; the next text line emits exactly one
\* vrhr(widths of the previous ruled row, widths of the new row, dl, dr)
\* before its rows and returns the state to running; horizontal rule
\* lines in state horizontal emit nothing.  (The previous ruled row is the
\* one saved in state.rules: a ruled text line saves the widths its vr
\* calls were given, and no other line between changes them.)
DeferredTieIn ==
    /\ IsHr /\ pre.line \in RuleOpen =>
         out = <<>> /\ state.line = "horizontal" /\ state.rules = pre.rules
    /\ IsTextLine /\ pre.line = "horizontal" =>
         /\ state.line = "running"
         /\ Places("vrhr") = {4}
         /\ out[4].a = <<pre.rules.widths, Widths,
                         layout.left - pre.rules.left,
                         (layout.left - pre.rules.left)
                           + (layout.width - pre.rules.width)>>
         /\ \A k \in Places("vr") \cup Places("text") : k > 4
    /\ IsTextLine /\ state.line = "running" =>
         /\ Places("vr") # {}
         /\ \A k \in Places("vr") : out[k].a[1] = state.rules.widths
         /\ state.rules.widths = Widths
    /\ raw # <<>> /\ ~IsTextLine /\ pre.line \in RuleOpen /\ state.line \in RuleOpen =>
         state.rules = pre.rules

TieInRendered ==
    /\ IsTextLine
    /\ pre.line = "horizontal"
    /\ Places("vrhr") # {}
    /\ pre.rules.widths # Widths

\* C6: a paper cut line emits exactly one cut, in every rule state; in
\* state running or horizontal exactly one stop-rule (vrstop with the
\* saved geometry, then vrlf(false)) comes before it, in state waiting or
\* ready no stop-rule is emitted
CutStopsRules ==
    IsCut =>
      /\ Cardinality(Places("cut")) = 1
      /\ out[Len(out)].op = "cut"
      /\ IF pre.line \in RuleOpen
         THEN /\ Len(out) = 6
              /\ out[2] = Call("area", <<pre.rules.left, pre.rules.width,
                                         pre.rules.right>>)
              /\ out[4] = Call("vrstop", <<pre.rules.widths>>)
              /\ out[5] = Call("vrlf", <<FALSE>>)
         ELSE Len(out) = 1

CutInsideRules ==
    IsCut /\ pre.line = "horizontal" /\ Places("vrstop") # {}

\* the width of the borders of the line just laid out, as the claim
\* counts it: text lines only
Overhead ==
    IF layout.text
    THEN IF parsedLine[1].border < 0 THEN Len(layout.columns) + 1
         ELSE (Len(layout.columns) - 1) * parsedLine[1].border
    ELSE 0

\* C7: for a line laid out with a non-empty width list, after the zero
\* width columns are dropped, the overflowing ones trimmed and the fixed
\* ones reduced, the sum of the final widths plus the border overhead
\* does not exceed cpl
WidthsFit ==
    parsedLine # <<>> /\ ~layout.raised /\ state.width # <<>> =>
      SumSeq(Widths) + Overhead <= printer.cpl

\* a text line of two or more columns whose width list reserves more
\* than cpl, so that fixed columns were reduced
FixedReduced ==
    /\ ~layout.raised
    /\ IsTextLine
    /\ state.width # <<>>
    /\ Len(layout.columns) >= 2
    /\ layout.f # <<>>
    /\ SumSeq([i \in 1..Len(state.width) |-> MaxOf(state.width[i], 0)]) > printer.cpl
    /\ \E i \in 1..Len(layout.columns) :
         layout.columns[i].width > 0 /\ layout.columns[i].width < state.width[i]

\* C8: with N >= 1 variable columns and free width V (V >= N after the
\* fixed columns were reduced), the widths floor((V + i) / N), i = 0..N-1
\* in line order, sum to V and no two differ by more than 1
FreeWidthShared ==
    parsedLine # <<>> /\ ~layout.raised /\ layout.n >= 1 =>
      /\ layout.v0 >= layout.n
      /\ Len(layout.g) = layout.n
      /\ \A k \in 1..layout.n :
           layout.columns[layout.g[k]].width
             = (layout.v0 + (k - 1)) \div layout.n
      /\ SumSeq([k \in 1..layout.n |-> layout.columns[layout.g[k]].width])
           = layout.v0
      /\ \A j, k \in 1..layout.n :
           Abs(layout.columns[layout.g[j]].width
                 - layout.columns[layout.g[k]].width) <= 1

UnevenShare ==
    /\ ~layout.raised
    /\ layout.n >= 2
    /\ layout.f # <<>>
    /\ layout.v0 % layout.n # 0
    /\ layout.v0 % layout.n # 0

\* C9: a parse fault is local to its column: in a line of two or more
\* columns with a column in error, the text columns of the line are still
\* rendered (the line that is laid out prints the text of its first
\* column) and the state is as the line found it
FaultIsColumnLocal ==
    /\ pc = "lines"
    /\ Len(parsedLine) >= 2
    /\ \E i \in 1..Len(parsedLine) : "error" \in parsedLine[i].has
    /\ "text" \in parsedLine[1].has
    /\ parsedLine[1].text # << <<>> >>
    /\ parsedLine[1].width # 0
    => /\ Places("text") # {}
       /\ state.wrap = pre.wrap /\ state.border = pre.border
       /\ state.width = pre.width /\ state.align = pre.align
       /\ state.option = pre.option

\* C10: a property block in a line of two or more columns has no
\* effect: the state is unchanged after the line and the line produces no
\* barcode, 2D code, image, command, vrstart or vrstop
BlockInColumnsInert ==
    Len(raw) >= 2 /\ (\E i \in 1..Len(raw) : raw[i].kind = "block") =>
      /\ state = pre
      /\ \A k \in 1..Len(out) :
           out[k].op \notin {"barcode", "qrcode", "image", "command",
                             "vrstart", "vrstop"}

BlockInColumnsSeen ==
    /\ pc = "lines"
    /\ Len(raw) >= 2
    /\ raw[1].kind = "block"
    /\ "property" \in parsedLine[1].has
    /\ pre.line = "running"

\* C12: a horizontal rule line in state waiting emits at once exactly
\* one divider hr(width) over the print area of the line (with width auto:
\* area(0, cpl, 0) and hr(cpl)) and leaves the rule state and every other
\* field of the state unchanged
DividerWhileWaiting ==
    IsHr /\ pre.line = "waiting" =>
      /\ state = pre
      /\ Len(out) = 5
      /\ Places("hr") = {4}
      /\ out[2] = Call("area", <<layout.left, layout.width, layout.right>>)
      /\ out[4] = Call("hr", <<layout.width>>)
      /\ layout.left + layout.width + layout.right = printer.cpl
      /\ state.width = <<>> =>
           /\ out[2] = Call("area", <<0, printer.cpl, 0>>)
           /\ out[4] = Call("hr", <<printer.cpl>>)

\* a divider narrower than cpl, under a width list without '*'
DividerNarrow ==
    /\ IsHr
    /\ pre.line = "waiting"
    /\ Places("hr") # {}
    /\ layout.width < printer.cpl
    /\ layout.width > 0

\* the number of wrapped rows of column i of the line just laid out
RowsOf(i) ==
    Len(WrapText(layout.columns[i], printer.encoding))

\* the number of rows a text line emits: the maximum over its columns,
\* at least one, when wrapping is enabled, else one
Emitted ==
    IF parsedLine[1].wrap
    THEN CHOOSE m \in 1..(1 + SumSeq([i \in 1..Len(layout.columns) |-> RowsOf(i)])) :
           /\ \A i \in 1..Len(layout.columns) : RowsOf(i) <= m
           /\ m = 1 \/ \E i \in 1..Len(layout.columns) : RowsOf(i) = m
    ELSE 1

\* the line as the pipes delimit it: trimmed, the escaped delimiters made
\* hexadecimal
PipeLine(line) ==
    ToHexEscape(Trim(line), {"\\", "{", "|", "}"})

LeadingPipe(line) ==
    PipeLine(line) # <<>> /\ Head(PipeLine(line)) = "|"

TrailingPipe(line) ==
    LET rest == DropFirstPipe(PipeLine(line))
    IN rest # <<>> /\ rest[Len(rest)] = "|"

\* the columns between the pipes, without the synthesized spaces
Bare(line) ==
    SplitAt(DropLastPipe(DropFirstPipe(PipeLine(line))), "|", <<>>)

\* 1 + leading whitespace - trailing whitespace of column k, where a
\* boundary space is counted for a first column that abuts the next pipe
\* without a leading pipe and for a last column that follows a pipe
\* without a trailing pipe
AlignCode(line, k) ==
    LET c == Bare(line)[k]
        n == Len(Bare(line))
        lead == \/ c # <<>> /\ Head(c) \in Whitespace
                \/ /\ k = 1
                   /\ ~LeadingPipe(line)
                   /\ n >= 2 \/ TrailingPipe(line)
                   /\ c # <<>> /\ c[Len(c)] \notin Whitespace
        trail == \/ c # <<>> /\ c[Len(c)] \in Whitespace
                 \/ /\ k = n
                    /\ ~TrailingPipe(line)
                    /\ n >= 2 \/ LeadingPipe(line)
                    /\ c # <<>> /\ Head(c) \notin Whitespace
    IN 1 + (IF lead THEN 1 ELSE 0) - (IF trail THEN 1 ELSE 0)

\* the alignment of the nine forms: 0 left, 1 center, 2 right
FormAlign(line) ==
    CASE line \in {<<"|", "c", "o", "l", " ", "|">>, <<"|", "c", "o", "l">>,
                   <<"c", "o", "l", " ", "|">>} -> 0
      [] line \in {<<"|", " ", "c", "o", "l", "|">>, <<"c", "o", "l", "|">>,
                   <<"|", " ", "c", "o", "l">>} -> 2
      [] OTHER -> 1

\* the width the texts of a wrapped row take
Used(data) ==
    SumSeq([k \in 1..Len(data) |->
              SumSeq([g \in 1..Len(data[k].text) |->
                        MeasureText(data[k].text[g], printer.encoding)
                        * ScaleOf(data[k].wh)])])

\* the doubled margin of row j of column i: the rest of the column width
\* times the alignment code
RowMargin(i, j) ==
    IF j > RowsOf(i) THEN <<>>
    ELSE <<(layout.columns[i].width
            - Used(WrapText(layout.columns[i], printer.encoding)[j].data))
           * (IF i <= Len(Bare(chars)) THEN AlignCode(chars, i) ELSE 1)>>

LineOfTwo ==
    chars = <<"A", "|", "B">> =>
      /\ Len(raw) = 2
      /\ \A k \in 1..2 : raw[k].kind = "text" /\ raw[k].text = << <<<<"A">>, <<"B">>>>[k] >>
      /\ pre.width = <<>> =>
           /\ Len(parsedLine) = 2
           /\ \A k \in 1..2 : parsedLine[k].has = {"text"}
           /\ parsedLine[1].align = 2
           /\ parsedLine[2].align = 0

\* C13 as stated: both columns of A|B are centered
LineOfTwoCentered ==
    chars = <<"A", "|", "B">> /\ pre.width = <<>> =>
      /\ Len(parsedLine) = 2
      /\ \A k \in 1..2 : parsedLine[k].has = {"text"} /\ parsedLine[k].align = 1

\* the first line of the document A|B, -- in the initial state, at twice
\* MaxCpl characters per line
LineOfTwoFirst ==
    /\ chars = <<"A", "|", "B">>
    /\ nl = 1
    /\ pre = InitState
    /\ printer.cpl = 2 * MaxCpl

\* the rule of the document A|B, -- spans the cpl of the printer
DividerExample ==
    chars = <<"-", "-">> /\ pre = InitState =>
      out = <<Call("normal", <<>>), Call("area", <<0, printer.cpl, 0>>),
              Call("align", <<0>>), Call("hr", <<printer.cpl>>), Call("lf", <<>>)>>

\* the character an escape sequence of the model's lines stands for
Literal(e) ==
    CASE e = <<"\\", "x", "4", "1">> -> "A"
      [] e = <<"\\", "x", "7", "E">> -> "~"
      [] e = <<"\\", "x", "5", "f">> -> "_"
      [] e = <<"\\", "x", "1", "b">> -> "x1b"
      [] e = <<"\\", "x", "7", "f">> -> "x7f"
      [] OTHER -> e[2]

ControlEscapes ==
    {<<"\\", "x", "1", "b">>, <<"\\", "x", "7", "f">>}

\* the segment stream of the text column a e b, should e give its character
Decoded(e) ==
    IF e = <<"\\", "n">> THEN << <<"a">>, "\n", <<"b">> >>
    ELSE << <<"a", Literal(e), "b">> >>

RowTexts(i, j) ==
    IF j > RowsOf(i) THEN << <<" ">> >>
    ELSE LET data == WrapText(layout.columns[i], printer.encoding)[j].data
         IN [k \in 1..Len(data) |-> data[k].text]

\* C14: a text line emits as many rows as the maximum wrapped row count
\* over its columns (at least one) when wrapping is enabled and exactly one
\* row when it is disabled; in each emitted row a column without a row of
\* that index is rendered as a single blank, and a column with one is
\* rendered with the texts of that row
RowCount ==
    IsTextLine =>
      /\ Cardinality(Places("lf"))
           = Emitted + (IF pre.line = "horizontal" THEN 1 ELSE 0)
      /\ [k \in 1..Cardinality(Places("text")) |->
            out[Indices(out, Places("text"))[k]].a[1]]
           = Flatten([j \in 1..Emitted |->
               Flatten([i \in 1..Len(layout.columns) |-> RowTexts(i, j)])])

\* a wrapped line whose columns have different numbers of rows
RowsUneven ==
    /\ IsTextLine
    /\ parsedLine[1].wrap
    /\ Emitted >= 2
    /\ \E i \in 1..Len(layout.columns) : RowsOf(i) < Emitted
    /\ Places("text") # {}

\* ---------------------------------------------------------------- barcodes
\* the payload is one the symbology's function keeps as a whole: the
\* pattern X of its data.replace(/((?!^X$).)*/, '')
Valid(s) ==
    CASE s.type = "upc" /\ Len(s.data) < 9 ->
           /\ Len(s.data) \in {7, 8} /\ AllDigits(s.data) /\ s.data[1] = "0"
      [] s.type = "upc" -> Len(s.data) \in {11, 12} /\ AllDigits(s.data)
      [] s.type \in {"ean", "jan"} /\ Len(s.data) < 9 ->
           Len(s.data) \in {7, 8} /\ AllDigits(s.data)
      [] s.type \in {"ean", "jan"} -> Len(s.data) \in {12, 13} /\ AllDigits(s.data)
      [] s.type = "code39" -> Valid39(s.data)
      [] s.type = "itf" ->
           s.data # <<>> /\ AllDigits(s.data) /\ Len(s.data) % 2 = 0
      [] s.type \in {"codabar", "nw7"} -> ValidCodabar(s.data)
      [] s.type \in {"code93", "code128"} -> s.data # <<>> /\ AllAscii(s.data)
      [] OTHER -> FALSE

\* the number of digits of the symbol with its check digit: EAN-13, UPC-A,
\* EAN-8, UPC-E
Full(s) ==
    CASE s.type = "upc" -> IF Len(s.data) < 9 THEN 8 ELSE 12
      [] OTHER -> IF Len(s.data) < 9 THEN 8 ELSE 13

IsEanOrUpcA(s) ==
    /\ s.type \in {"upc", "ean", "jan"}
    /\ Valid(s)
    /\ ~(s.type = "upc" /\ Len(s.data) < 9)

\* the digits weighted 3 and 1 alternately leftwards, 3 on the digit next
\* to the last, plus the last
Mod10Sum(text) ==
    SumSeq([k \in 1..(Len(text) - 1) |->
              Number(text[Len(text) - k]) * (IF k % 2 = 1 THEN 3 ELSE 1)])
    + Number(text[Len(text)])

\* C15: the digit string generate() returns for a valid EAN-13, UPC-A or
\* EAN-8 payload is the payload's data digits followed by one check digit,
\* and its weighted sum (3 and 1 alternately leftwards from the digit next
\* to the check digit, plus the check digit) is divisible by 10
Mod10Checked ==
    (bar # <<>> /\ IsEanOrUpcA(symbol)) =>
      /\ bar[1].made /\ ~bar[1].raised
      /\ Len(bar[1].text) = Full(symbol)
      /\ AllDigits(bar[1].text)
      /\ SubSeq(bar[1].text, 1, Full(symbol) - 1)
           = SubSeq(symbol.data, 1, Full(symbol) - 1)
      /\ Mod10Sum(bar[1].text) % 10 = 0

\* C15 witness: a 12-digit EAN-13 payload, an 11-digit UPC-A payload or a
\* 7-digit EAN-8 payload got a check digit other than 0
Mod10Made ==
    /\ bar # <<>>
    /\ IsEanOrUpcA(symbol)
    /\ Len(symbol.data) = Full(symbol) - 1
    /\ bar[1].made
    /\ bar[1].text[Full(symbol)] # "0"

CarriesCheckDigit(s) ==
    s.type \in {"upc", "ean", "jan"} /\ Valid(s) /\ Len(s.data) = Full(s)

\* C18: for a payload that carries its check digit (13-digit EAN-13,
\* 12-digit UPC-A, 8-digit EAN-8, 8-digit UPC-E) the text and the widths
\* are those of the payload with any other last digit, and those of the
\* payload without its last digit
CheckDigitRecomputed ==
    (bar # <<>> /\ CarriesCheckDigit(symbol)) =>
      LET front == SubSeq(symbol.data, 1, Len(symbol.data) - 1)
          omitted == generate([symbol EXCEPT !.data = front])
      IN /\ bar[1].made
         /\ bar[1].text = omitted.text
         /\ bar[1].widths = omitted.widths
         /\ \A c \in 0..9 :
              LET other == generate([symbol EXCEPT
                                       !.data = Append(front, DigitChars[c + 1])])
              IN bar[1].text = other.text /\ bar[1].widths = other.widths

\* C18 witness: a payload whose last digit is not the check digit was
\* encoded, and the text ends with the check digit instead
CheckDigitReplaced ==
    /\ bar # <<>>
    /\ CarriesCheckDigit(symbol)
    /\ bar[1].made
    /\ bar[1].text[Full(symbol)] # symbol.data[Full(symbol)]

\* the value whose pattern of c128.element is p, or NaN
Value128(p) ==
    IF \E v \in 0..106 : C128Element[v + 1] = p
    THEN CHOOSE v \in 0..106 : C128Element[v + 1] = p
    ELSE NaN

\* the widths between the quiet zones, in modules
Modules(widths, width) ==
    [k \in 1..(Len(widths) - 2) |->
        IF widths[k + 1] % width = 0 THEN widths[k + 1] \div width ELSE NaN]

\* the elements read back through the element table: six to a symbol,
\* seven to the last
Decode128(m) ==
    IF Len(m) < 7 \/ (Len(m) - 7) % 6 # 0 THEN <<>>
    ELSE [k \in 1..((Len(m) - 7) \div 6 + 1) |->
            Value128(SubSeq(m, 6 * k - 5,
                            IF 6 * k + 1 = Len(m) THEN Len(m) ELSE 6 * k))]

\* the sequence is a start code, values, the check symbol (start code +
\* sum of i x value i) mod 103 and the stop symbol
Checksum128(seq) ==
    /\ Len(seq) >= 4
    /\ \A k \in 1..Len(seq) : seq[k] \in 0..106
    /\ seq[1] \in {103, 104, 105}
    /\ seq[Len(seq)] = 106
    /\ seq[Len(seq) - 1]
         = (seq[1] + SumSeq([i \in 1..(Len(seq) - 3) |-> i * seq[i + 1]])) % 103

IsCode128(s) ==
    s.type = "code128" /\ s.data # <<>> /\ AllAscii(s.data)

InvalidIsEmpty ==
    (bar # <<>> /\ ~Valid(symbol)) => bar[1] = NoResult

\* a payload without a line terminator that breaks the rule of its
\* symbology gives the empty result
InvalidLineIsEmpty ==
    (bar # <<>> /\ ~Valid(symbol) /\ \A k \in 1..Len(symbol.data) :
                                       symbol.data[k] \notin LineTerminators)
      => bar[1] = NoResult

\* generate() raises only on a payload with a line terminator that
\* breaks the rule of its symbology
RaisedOnTerminator ==
    (bar # <<>> /\ bar[1].raised) =>
      /\ ~Valid(symbol)
      /\ \E k \in 1..Len(symbol.data) : symbol.data[k] \in LineTerminators

\* -------------------------------------------------------------- sink calls
\* C20: the sink calls of one transform are issued one at a time and in
\* the order of the document: never two are in flight, the first is
\* open(), none follows close(), the calls of a line are issued in their
\* order and before any call of a later line, and the content is the
\* results of the calls in that order; when transform() returns, the last
\* call is close() and the content holds the result of every call
SinkSequential ==
    /\ Len(flying) <= 1
    /\ log # <<>> => log[1] = [step |-> 0, call |-> Call("open", <<>>)]
    /\ \A k \in 2..Len(log) : log[k].call.op # "open"
    /\ \A k \in 1..(Len(log) - 1) :
          /\ log[k].call.op # "close"
          /\ log[k].step <= log[k + 1].step
    /\ [k \in 1..Issued |-> log[Len(log) - Issued + k].call] = SubSeq(out, 1, Issued)
    /\ content = SubSeq(log, 1, Len(log) - Len(flying))
    /\ (pc = "done" /\ AllDone) =>
         /\ log[Len(log)].call.op = "close"
         /\ content = log

\* C20 witness: transform() has returned from a document of two lines
\* that both made sink calls, and a call of the first line came to be
\* followed in the log by a call of the second
SinkTwoLines ==
    /\ pc = "done"
    /\ AllDone
    /\ nl = 2
    /\ \E k \in 1..(Len(log) - 1) : log[k].step = 1 /\ log[k + 1].step = 2
    /\ log[Len(log)] = [step |-> 3, call |-> Call("close", <<>>)]
    /\ Len(content) = Len(log)

\* ------------------------------------------------------------ lock timeout
\* C21: a call whose wait in lock() times out ends with the error: the
\* step that times it out leaves locked, lockPromise and lockResolve as
\* they were and calls no unlock(), and from then on the call stays
\* failed, never waits again, never reaches open() or any later sink call
\* and never calls unlock()
TimeoutIsFinal ==
    [][\A p \in Calls :
          /\ (tpc[p] = "waiting" /\ tpc'[p] = "timedout") =>
               /\ locked' = locked
               /\ lockPromise' = lockPromise
               /\ lockResolve' = lockResolve
               /\ settled' = settled
               /\ unlocks' = unlocks
               /\ unlocks[p] = 0
          /\ tpc[p] = "timedout" =>
               /\ tpc'[p] = "timedout"
               /\ unlocks'[p] = 0]_vars

\* C21 witness: a call has timed out while another call, which holds the
\* target, is processing its lines, and the target is still locked
TimedOutBesideHolder ==
    \E p, q \in Calls :
        /\ tpc[p] = "timedout"
        /\ unlocks[p] = 0
        /\ tpc[q] = "lines"
        /\ locked
        /\ lockResolve # 0

\* ------------------------------------------------------- border property
\* the calls that draw or move rules
RuleCalls ==
    Places("vrstart") \cup Places("vrstop") \cup Places("vrhr") \cup Places("vr")
    \cup Places("vrlf")

\* C22: a single-column border property that takes the border from line
\* to a non-negative value leaves the rule state waiting; from state ready
\* it emits no rule instruction (nothing at all when the block has no
\* image, code or command); from state running or horizontal it emits
\* exactly one stop-rule, with the area and the column widths saved in the
\* state.  The saved geometry is that of the most recently rendered text
\* row: a text line saves its own area and widths, and no other line
\* changes them.
BorderStopsRules ==
    /\ BorderUp =>
         /\ state.line = "waiting"
         /\ pre.line = "ready" =>
              /\ RuleCalls = {}
              /\ parsedLine[1].has \cap {"image", "code", "command"} = {} => out = <<>>
         /\ pre.line \in RuleOpen =>
              /\ Cardinality(Places("vrstop")) = 1
              /\ Len(out) >= 5
              /\ out[1] = Call("normal", <<>>)
              /\ out[2] = Call("area", <<pre.rules.left, pre.rules.width,
                                         pre.rules.right>>)
              /\ out[3] = Call("align", <<0>>)
              /\ out[4] = Call("vrstop", <<pre.rules.widths>>)
              /\ out[5] = Call("vrlf", <<FALSE>>)
              /\ RuleCalls = {4, 5}
              /\ parsedLine[1].has \cap {"image", "code", "command"} = {}
                   => Len(out) = 5
    /\ (IsTextLine /\ pc = "lines") =>
         state.rules = [left |-> layout.left, width |-> layout.width,
                        right |-> layout.right, widths |-> Widths]
    /\ (parsedLine # <<>> /\ ~IsTextLine) => state.rules = pre.rules

\* C22 witness: the border went from line to a non-negative value in
\* state horizontal, and the rules of a row with columns were stopped
BorderStoppedRules ==
    /\ BorderUp
    /\ pre.line = "horizontal"
    /\ Places("vrstop") # {}
    /\ pre.rules.widths # <<>>

\* the border went from line to a non-negative value in state ready
BorderCancelledRules ==
    BorderUp /\ pre.line = "ready" /\ state.line = "waiting"

\* ------------------------------------------------------------ shrink step
\* the first and the last place of the largest of the widths w
FirstMax(w) ==
    CHOOSE i \in 1..Len(w) :
        /\ \A j \in 1..Len(w) : w[j] <= w[i]
        /\ \A j \in 1..(i - 1) : w[j] < w[i]

LastMax(w) ==
    CHOOSE i \in 1..Len(w) :
        /\ \A j \in 1..Len(w) : w[j] <= w[i]
        /\ \A j \in (i + 1)..Len(w) : w[j] < w[i]

\* k times: the largest width is decremented, the first (the last) of
\* the largest when several are
RECURSIVE ShrunkFirst(_, _)
ShrunkFirst(w, k) ==
    IF k = 0 THEN w ELSE ShrunkFirst([w EXCEPT ![FirstMax(w)] = @ - 1], k - 1)

RECURSIVE ShrunkLast(_, _)
ShrunkLast(w, k) ==
    IF k = 0 THEN w ELSE ShrunkLast([w EXCEPT ![LastMax(w)] = @ - 1], k - 1)

\* the fixed columns of the line just laid out: their widths before the
\* shrink step and after it, the free width before it
FixedBefore ==
    LET kept == KeptColumns(parsedLine, layout.text, printer.cpl)
    IN [k \in 1..Len(layout.f) |-> kept[layout.f[k]].width]

FixedAfter ==
    [k \in 1..Len(layout.f) |-> layout.columns[layout.f[k]].width]

FreeBefore ==
    printer.cpl - SumSeq(FixedBefore) - Overhead

\* the number of iterations of the shrink step
Iterations ==
    IF layout.n > FreeBefore THEN layout.n - FreeBefore ELSE 0

Shrinks ==
    parsedLine # <<>> /\ ~layout.raised /\ layout.f # <<>> /\ Iterations > 0

\* C23: the shrink step runs while the variable columns outnumber the
\* free width; each iteration takes one from the largest fixed column and
\* adds one to the free width, and of several largest columns it is the
\* last in line order that is reduced
ShrinkLastLargest ==
    Shrinks =>
      /\ layout.v0 = FreeBefore + Iterations
      /\ layout.v0 = layout.n
      /\ FixedAfter = ShrunkLast(FixedBefore, Iterations)

\* C23 as stated: of several largest columns the first in line order is
\* reduced
ShrinkFirstLargest ==
    Shrinks =>
      /\ layout.v0 = FreeBefore + Iterations
      /\ layout.v0 = layout.n
      /\ FixedAfter = ShrunkFirst(FixedBefore, Iterations)

\* C23 witness: two fixed columns of the same, largest width, and the
\* second of them was reduced while the first kept its width
ShrunkTie ==
    /\ Shrinks
    /\ Len(layout.f) >= 2
    /\ FixedBefore[1] = FixedBefore[2]
    /\ \A k \in 1..Len(FixedBefore) : FixedBefore[k] <= FixedBefore[1]
    /\ FixedAfter[1] = FixedBefore[1]
    /\ FixedAfter[2] < FixedBefore[2]

\* ----------------------------------------------------- blocks in error
\* a line of one column that is a property block with a member in error
ErroredBlock ==
    /\ pc = "lines"
    /\ Len(parsedLine) = 1
    /\ "property" \in parsedLine[1].has
    /\ parsedLine[1].error

\* C24: a single-column property block with a member that is not blank
\* and not key:value is in error as a whole and is rendered empty: the line
\* emits no barcode, 2D code, image or command
ErroredBlockIsEmpty ==
    ErroredBlock =>
      \A k \in 1..Len(out) :
        out[k].op \notin {"barcode", "qrcode", "image", "command"}

\* a block in error keeps its well-formed members: the code of the block
\* is drawn
ErroredBlockDrawn ==
    /\ ErroredBlock
    /\ "code" \in parsedLine[1].has
    /\ Places("barcode") # {}

\* every single-column block with a member in error is flagged
BadMemberFlagged ==
    /\ pc = "lines"
    /\ Len(raw) = 1
    /\ raw[1].kind = "block"
    /\ \E m \in 1..Len(raw[1].members) : raw[1].members[m] = BadMember
    => ErroredBlock

\* ---------------------------------------------------------- wrapped rows
\* the rows wrapText returned
WrappedRows ==
    wrapped[1]

\* the glyphs of a row, each with the decoration it is printed in
RowGlyphs(row) ==
    Flatten([k \in 1..Len(row.data) |->
               [g \in 1..Len(row.data[k].text) |->
                  [glyph |-> row.data[k].text[g], ul |-> row.data[k].ul,
                   em |-> row.data[k].em, iv |-> row.data[k].iv,
                   wh |-> row.data[k].wh]]])

\* the cells a row takes: measured glyph width times horizontal scale
RowCells(row) ==
    SumSeq([g \in 1..Len(RowGlyphs(row)) |->
              MeasureText(RowGlyphs(row)[g].glyph, wrapping.encoding)
              * ScaleOf(RowGlyphs(row)[g].wh)])

\* the glyphs of all rows, in the order of the rows
WrappedGlyphs ==
    Flatten([j \in 1..Len(WrappedRows) |-> RowGlyphs(WrappedRows[j])])

\* the scale selector in force at place i of the segment stream text
\* (places from 1: the decorations are at the even places)
RECURSIVE SelectorAt(_, _)
SelectorAt(text, i) ==
    IF i <= 1 THEN 0
    ELSE LET before == SelectorAt(text, i - 1)
             d == MinOf(CaretLen(text[i - 1]), 7)
         IN IF (i - 1) % 2 = 0 /\ text[i - 1] \notin {"\n", "_", "\"", "BQ"}
            THEN (IF before = d THEN 0 ELSE d)
            ELSE before

\* the glyphs of the run at place i that are not wider than the column,
\* under the scale of the selector in force
KeptOf(text, i, width, encoding) ==
    LET Fits(glyph) ==
          MeasureText(glyph, encoding) * ScaleOf(SelectorAt(text, i)) <= width
    IN SelectSeq(text[i], Fits)

\* the glyphs of the stream that are not wider than the column, in order
KeptGlyphs ==
    Flatten([k \in 1..((Len(wrapping.column.text) + 1) \div 2) |->
               KeptOf(wrapping.column.text, 2 * k - 1, wrapping.column.width,
                      wrapping.encoding)])

\* C25: wrapText returns for every segment stream and column width of at
\* least 1; in every row the sum of measured glyph width times horizontal
\* scale is at most the column width; a glyph whose scaled width exceeds
\* the column width is in no row, and every other glyph is in exactly one
\* row, in the order of the text
RowsFitAndKeepOrder ==
    wrapped # <<>> =>
      /\ Len(wrapped) = 1
      /\ \A j \in 1..Len(WrappedRows) :
           /\ RowCells(WrappedRows[j]) <= wrapping.column.width
           /\ WrappedRows[j].margin2
                = (wrapping.column.width - RowCells(WrappedRows[j]))
                  * wrapping.column.align
      /\ [g \in 1..Len(WrappedGlyphs) |-> WrappedGlyphs[g].glyph] = KeptGlyphs

\* C25 witness: a text is wrapped into several rows, a glyph wider than
\* the column is dropped and the glyphs after it are kept
WrappedAndDropped ==
    /\ wrapped # <<>>
    /\ Len(WrappedRows) >= 3
    /\ wrapping.column.text[1] = <<"a", "W", "b">>
    /\ wrapping.column.width = 1
    /\ wrapping.encoding = "cp932"
    /\ Len(KeptGlyphs) >= 2
    /\ WrappedRows[1].data[1].text = <<"a">>
    /\ WrappedRows[2].data[1].text = <<"b">>

\* ------------------------------------------------------------ decorations
\* the horizontal and the vertical scale of a scale selector: 1 is double
\* width, 2 is double height, 3..7 are 2x..6x in both directions
SizeOf(selector) ==
    CASE selector = 0 -> [width |-> 1, height |-> 1]
      [] selector = 1 -> [width |-> 2, height |-> 1]
      [] selector = 2 -> [width |-> 1, height |-> 2]
      [] OTHER -> [width |-> selector - 1, height |-> selector - 1]

\* a toggle d (underline, emphasis, invert) is on at place i of the
\* segment stream text when it occurs an odd number of times before i
ToggledAt(text, i, d) ==
    Cardinality({k \in 1..(i - 1) : k % 2 = 0 /\ text[k] = d}) % 2 = 1

\* the glyphs of the run at place i that fit the column under the size of
\* the selector in force, each with the decoration in force
DecoratedOf(text, i, width, encoding) ==
    LET Fits(glyph) ==
          MeasureText(glyph, encoding) * SizeOf(SelectorAt(text, i)).width
          <= width
        kept == SelectSeq(text[i], Fits)
    IN [g \in 1..Len(kept) |->
          [glyph |-> kept[g], ul |-> ToggledAt(text, i, "_"),
           em |-> ToggledAt(text, i, "\""), iv |-> ToggledAt(text, i, "BQ"),
           wh |-> SelectorAt(text, i)]]

DecoratedGlyphs ==
    Flatten([k \in 1..((Len(wrapping.column.text) + 1) \div 2) |->
               DecoratedOf(wrapping.column.text, 2 * k - 1,
                           wrapping.column.width, wrapping.encoding)])

\* the largest vertical scale of the glyphs of a row, at least 1
TallestOf(row) ==
    CHOOSE h \in 1..6 :
        /\ \A k \in 1..Len(row.data) : SizeOf(row.data[k].wh).height <= h
        /\ h = 1 \/ \E k \in 1..Len(row.data) : SizeOf(row.data[k].wh).height = h

\* C26: a run of K carets sets the scale selector to min(K, 7), or to 0
\* when it is min(K, 7) already; selector 1 doubles the width, 2 the
\* height, 3..7 scale both by 2..6, so the horizontal scale and the row
\* height are at most 6; underline, emphasis and invert are toggles
\* independent of the selector and of each other; every column starts with
\* no decoration
CaretsSelectScale ==
    wrapped # <<>> =>
      /\ WrappedGlyphs = DecoratedGlyphs
      /\ \A g \in 1..Len(WrappedGlyphs) : WrappedGlyphs[g].wh \in 0..7
      /\ \A selector \in 0..7 :
           /\ ScaleOf(selector) = SizeOf(selector).width
           /\ MaxOf(1, HeightOf(selector)) = SizeOf(selector).height
           /\ ScaleOf(selector) <= 6
      /\ \A j \in 1..Len(WrappedRows) :
           /\ WrappedRows[j].height = TallestOf(WrappedRows[j])
           /\ WrappedRows[j].height <= 6

\* C26 witness: eight carets select 6x, seven more carets select normal
\* size again, and the glyphs before, between and after are placed so
WrappedSixfold ==
    /\ wrapped # <<>>
    /\ wrapping.column.text
         = << <<"a", "W", "b">>, "^^^^^^^^", <<>>, "^^^^^^^", <<"a", "W", "b">> >>
    /\ wrapping.column.width = 3
    /\ Len(WrappedGlyphs) = 6
    /\ \A g \in 1..6 : WrappedGlyphs[g].wh = 0

\* underline is on while the selector is double height, in a row of
\* height 2
WrappedUnderlinedTall ==
    /\ wrapped # <<>>
    /\ \E j \in 1..Len(WrappedRows) :
         /\ WrappedRows[j].height = 2
         /\ \E k \in 1..Len(WrappedRows[j].data) :
              /\ WrappedRows[j].data[k].ul
              /\ ~WrappedRows[j].data[k].em
              /\ WrappedRows[j].data[k].wh = 2

\* ------------------------------------------------------- unlock at the end
\* the calls that took the lock and have ended, by return or by raise
Ended ==
    {p \in Calls : tpc[p] \in {"done", "failed"}}

\* C27: a transform() that took the lock has called unlock() exactly
\* once when it has ended, by return or by raise, and not before; once no
\* call is under way (each has ended or has not begun) the target is
\* unlocked, so that the next lock() takes the lock at once
UnlockedAtEnd ==
    /\ \A p \in Calls :
         unlocks[p] = IF p \in Ended THEN 1 ELSE 0
    /\ (\A p \in Calls : tpc[p] \in {"idle", "done", "failed", "timedout"}) =>
         /\ ~locked
         /\ lockResolve = 0
         /\ lockPromise = 0

\* the next lock() of a call that begins when no call is under way takes
\* the lock at once
LaterLockAtOnce ==
    [][\A p \in Calls :
         (/\ tpc[p] = "idle"
          /\ tpc'[p] # "idle"
          /\ Ended # {}
          /\ \A q \in Calls : tpc[q] \in {"idle", "done", "failed", "timedout"})
         => tpc'[p] = "acquired" /\ locked']_vars

\* C27 witness: all calls have ended, one by return, one by raise, and
\* the target is unlocked
AllEndedUnlocked ==
    /\ \A p \in Calls : tpc[p] \in {"done", "failed", "timedout"}
    /\ \E p \in Calls : tpc[p] = "done"
    /\ \E p \in Calls : tpc[p] = "failed"
    /\ ~locked

\* ------------------------------------------------- rule state and border
\* C28: after every processed line the rule state is waiting exactly
\* when the border is non-negative, and ready, running or horizontal
\* exactly when the border is line (negative); ruled rows (vr) are emitted
\* only while the border is line
RuleStateFollowsBorder ==
    /\ pc \in {"open", "lines"} =>
         /\ state.line \in {"waiting", "ready", "running", "horizontal"}
         /\ state.line = "waiting" <=> state.border >= 0
         /\ state.line \in {"ready", "running", "horizontal"} <=> state.border < 0
    /\ pc = "lines" /\ Places("vr") # {} =>
         /\ pre.border < 0
         /\ state.border < 0
         /\ state.line = "running"

\* C28 witness: a text line emitted a ruled row under border line
RuledRowUnderLine ==
    /\ pc = "lines"
    /\ IsTextLine
    /\ Places("vr") # {}
    /\ state.border < 0
    /\ state.line = "running"

\* a paper cut inside open rules left the state ready, under border line
CutUnderLine ==
    /\ pc = "lines"
    /\ IsCut
    /\ pre.line \in RuleOpen
    /\ state.line = "ready"
    /\ state.border < 0

\* ------------------------------------------------------------ print areas
\* the width of the borders as createLine subtracts it: for a text line
\* that keeps at least one column
OverheadKept ==
    IF layout.text /\ Len(layout.columns) > 0 THEN Overhead ELSE 0

\* the width left over by the columns of the line just laid out and
\* their borders
SlackKept ==
    printer.cpl - (SumSeq(Widths) + OverheadKept)

\* the same, with the border overhead counted for every text line
Slack ==
    printer.cpl - (SumSeq(Widths) + Overhead)

\* every print area given to the sink has left >= 0, right >= 0 and
\* left + width + right = cpl, and so has the print area of the line
AreasInside ==
    /\ \A k \in Places("area") :
         /\ out[k].a[1] >= 0
         /\ out[k].a[2] >= 0
         /\ out[k].a[3] >= 0
         /\ out[k].a[1] + out[k].a[2] + out[k].a[3] = printer.cpl
    /\ (pc = "lines" /\ parsedLine # <<>> /\ ~layout.raised) =>
         /\ layout.left >= 0
         /\ layout.right >= 0
         /\ layout.left + layout.width + layout.right = printer.cpl
         /\ (IsTextLine \/ Places("hr") # {} \/ Places("barcode") # {}
             \/ Places("qrcode") # {} \/ Places("image") # {}
             \/ Places("command") # {}) =>
              \E k \in Places("area") :
                  out[k].a = <<layout.left, layout.width, layout.right>>

\* the print area of the line just laid out is (0, cpl, 0) when a
\* flexible column is among the columns it keeps, else it has the margins
\* of the given slack
MarginsOf(slack) ==
    (pc = "lines" /\ parsedLine # <<>> /\ ~layout.raised) =>
      /\ layout.n >= 1 =>
           layout.left = 0 /\ layout.right = 0 /\ layout.width = printer.cpl
      /\ layout.n = 0 =>
           /\ layout.left = (slack * parsedLine[1].alignment) \div 2
           /\ layout.right = slack - layout.left

\* C29: every print area given to the sink (those of the start-rule,
\* the stop-rule and the tie-in included) has left >= 0, right >= 0 and
\* left + width + right = cpl; the print area of a line that keeps a
\* flexible column is (0, cpl, 0), that of a line that keeps none has
\* left = floor(slack * alignment / 2) and right = slack - left, where
\* slack = cpl - (sum of the widths + border overhead) and the border
\* overhead is counted only for a text line that keeps at least one column
AreasSpanCpl ==
    /\ AreasInside
    /\ MarginsOf(SlackKept)
    /\ SlackKept >= 0 \/ layout.raised \/ parsedLine = <<>>

\* C29 as stated: the border overhead (count + 1 in line mode, else
\* (count - 1) x border width) is counted for every text line
AreasSpanCplAlways ==
    /\ AreasInside
    /\ MarginsOf(Slack)

\* C29 witness: a text line under border line on a printer too narrow
\* for any column keeps no column; its area has width 0 and the margins
\* share the whole of cpl
AreaWithoutColumns ==
    /\ pc = "lines"
    /\ IsTextLine
    /\ ~layout.raised
    /\ layout.columns = <<>>
    /\ parsedLine[1].border < 0
    /\ SlackKept = printer.cpl
    /\ \E k \in Places("area") :
           /\ out[k].a = <<layout.left, 0, layout.right>>
           /\ layout.left + layout.right = printer.cpl

\* a text line of fixed columns narrower than cpl, aligned left, passed
\* an area with a margin on the right only
AreaWithMargin ==
    /\ pc = "lines"
    /\ IsTextLine
    /\ ~layout.raised
    /\ layout.n = 0
    /\ layout.columns # <<>>
    /\ SlackKept >= 2
    /\ parsedLine[1].alignment = 0
    /\ layout.left = 0
    /\ layout.right = SlackKept
    /\ \E k \in Places("area") :
           out[k].a = <<0, printer.cpl - SlackKept, SlackKept>>

\* a line with a flexible column, under a width list
AreaWithFlexible ==
    /\ pc = "lines"
    /\ IsTextLine
    /\ ~layout.raised
    /\ layout.n >= 1
    /\ layout.f # <<>>
    /\ \E k \in Places("area") : out[k].a = <<0, printer.cpl, 0>>

\* a centred line whose slack is odd: the left margin is the smaller
AreaCentredOdd ==
    /\ pc = "lines"
    /\ ~layout.raised
    /\ parsedLine # <<>>
    /\ layout.n = 0
    /\ parsedLine[1].alignment = 1
    /\ SlackKept % 2 = 1
    /\ layout.right = layout.left + 1
    /\ Places("area") # {}

\* ------------------------------------------------------- CODE128 read back
\* the characters (their codes) that the values v stand for in code set
\* "A", "B" or "C", as a reader of CODE128 takes them: in A the values
\* 0..63 are the characters 0x20..0x5f and 64..95 the characters
\* 0x00..0x1f, in B the values 0..95 are the characters 0x20..0x7f, in C
\* the values 0..99 are two digits; 99, 100 and 101 change the code set,
\* 98 takes the next value alone in the other of A and B; any other value
\* reads as NaN
RECURSIVE ReadFrom(_, _, _)
ReadFrom(v, set, shifted) ==
    IF v = <<>> THEN <<>>
    ELSE LET x == Head(v)
             use == IF shifted THEN (IF set = "A" THEN "B" ELSE "A") ELSE set
         IN IF use = "C"
            THEN (IF x \in 0..99
                  THEN <<48 + (x \div 10), 48 + (x % 10)>>
                       \o ReadFrom(Tail(v), "C", FALSE)
                  ELSE IF x = 100 THEN ReadFrom(Tail(v), "B", FALSE)
                  ELSE IF x = 101 THEN ReadFrom(Tail(v), "A", FALSE)
                  ELSE <<NaN>>)
            ELSE IF x \in 0..95
            THEN <<IF use = "A" /\ x >= 64 THEN x - 64 ELSE x + 32>>
                 \o ReadFrom(Tail(v), set, FALSE)
            ELSE IF shifted THEN <<NaN>>
            ELSE IF x = 98 THEN ReadFrom(Tail(v), set, TRUE)
            ELSE IF x = 99 THEN ReadFrom(Tail(v), "C", FALSE)
            ELSE IF x = 100 /\ set = "A" THEN ReadFrom(Tail(v), "B", FALSE)
            ELSE IF x = 101 /\ set = "B" THEN ReadFrom(Tail(v), "A", FALSE)
            ELSE <<NaN>>

\* the characters of a start code and its values
Read128(seq) ==
    IF seq = <<>> \/ seq[1] \notin {103, 104, 105} THEN <<NaN>>
    ELSE ReadFrom(Tail(seq),
                  CASE seq[1] = 103 -> "A" [] seq[1] = 104 -> "B" [] OTHER -> "C",
                  FALSE)

\* the values of the symbol just made, read from its widths
Made128 ==
    Decode128(Modules(bar[1].widths, symbol.width))

\* C30: for a non-empty CODE128 payload of characters 0x00-0x7f every
\* value before the stop symbol is in 0..105, and the data values, read in
\* the code set the start code selects (99, 100, 101 change the set, 98
\* shifts exactly the next symbol between A and B, a value of set C is two
\* digits), give exactly the payload
Code128ReadsBack ==
    (bar # <<>> /\ IsCode128(symbol)) =>
      /\ Len(Made128) >= 4
      /\ \A k \in 1..(Len(Made128) - 1) : Made128[k] \in 0..105
      /\ Made128[Len(Made128)] = c128.stop
      /\ Read128(SubSeq(Made128, 1, Len(Made128) - 2))
           = [k \in 1..Len(symbol.data) |-> CharCodeAt(symbol.data[k])]

\* C30 witness: a lower-case letter between two control characters was
\* encoded in code set A with a shift
Code128Shifted ==
    /\ bar # <<>>
    /\ IsCode128(symbol)
    /\ symbol.data = <<"\t", "a", "\t">>
    /\ SubSeq(Made128, 1, 5) = <<103, 73, 98, 65, 73>>

\* a control character between two lower-case letters was encoded in
\* code set B with a shift
Code128ShiftedB ==
    /\ bar # <<>>
    /\ IsCode128(symbol)
    /\ symbol.data = <<"a", "\t", "a">>
    /\ SubSeq(Made128, 1, 5) = <<104, 65, 98, 73, 65>>

\* digits in code set C after letters in code set B
Code128Switched ==
    /\ bar # <<>>
    /\ IsCode128(symbol)
    /\ symbol.data = <<"A", "B", "1", "2", "3", "4">>
    /\ SubSeq(Made128, 1, 6) = <<104, 33, 34, 99, 12, 34>>
====
